---- MODULE Spec2Model ----
(***************************************************************************)
(* DStorageStreamBuf (event-per-chunk variant, src/unnamed/part_002): one  *)
(* stream instance, its consumer thread, the background do_read() task and *)
(* the DirectStorage queue that fills the flat buffer chunk by chunk.      *)
(* Spec is the event-per-chunk variant; SpecPoll is the polling variant of *)
(* src/src/dstorage_stream.cpp over the same variables.                    *)
(*                                                                         *)
(* Addresses are integers: buffer b lives at [Base(b), Base(b)+Stride),    *)
(* the null pointer is 0.  A byte of the file at offset i is FileByte(i);  *)
(* a buffer byte the engine has not written reads as Unwritten, a byte     *)
(* fetched from outside the live buffer reads as Stale.                    *)
(***************************************************************************)
EXTENDS Integers, Sequences, FiniteSets, TLC

\* ---- bounds of the model ------------------------------------------------
MaxLen == 3
MaxChunk == 2
MaxSessions == 2
\* the mapped stream, scaled down: MMapStreamBuf::default_reserve_size (16 MiB),
\* the 1 GiB threshold of ExpandFileSize, the write/seek/read calls of one run
DefaultReserve == 2
GiB == 4
MaxOps == 3
\* CreateBuffer: the width of size_t and the largest page size (2^MaxPageBits),
\* scaled down
SizeBits == 5
MaxPageBits == 3

\* ---- status_code (enum values keep the source's order) ------------------
idle == 0
launched == 1
reading == 2
completed == 3
error_dll_not_found == -10000
error_file_open_failed == -9999
error_unknown == -9998

StatusCodes == {idle, launched, reading, completed,
                error_dll_not_found, error_file_open_failed, error_unknown}
ErrorCodes == {error_dll_not_found, error_file_open_failed, error_unknown}
Terminal == ErrorCodes \cup {completed}

Min(a, b) == IF a <= b THEN a ELSE b

\* ---- memory -------------------------------------------------------------
Stride == MaxLen + 2
Base(b) == b * Stride
Unwritten == 0
Stale == -1
FileByte(i) == i + 1
NoPath == -1
Paths == {NoPath} \cup (0 .. MaxLen)

VARIABLES
    g_d3d12_device,            \* TRUE iff the ID3D12Device pointer is non-null
    g_ds_factory,              \* TRUE iff the IDStorageFactory pointer is non-null
    g_ds_queue,                \* TRUE iff the IDStorageQueue pointer is non-null
    s_resolve_imports,         \* the constructor's static DirectStorageInitializer has run
    g_ds_staging_buffer_size,  \* chunk size C
    queue,                     \* submitted, not yet processed engine items
    errRec,                    \* the queue's error record holds a failure
    fence_,                    \* [null, val, on]: ID3D12Fence and its SetEventOnCompletion list
    mem,                       \* content of the live buffer (offset+1 -> byte)
    released,                  \* ids of buffers handed to BufferDeleter
    extracted,                 \* ids of buffers whose BufferPtr was moved out by extract()
    buf_, file_size_, read_size_, event_pos_, state_, events_,
    future_,                   \* "none" | "valid"
    tpc,                       \* position of do_read(): none/openfile/signal_all/submit/setreading/waitlast/done
    ntasks,                    \* do_read() tasks launched and not yet returned
    gptr, egptr,               \* get area of the streambuf (addresses)
    nsess,                     \* sessions opened so far (allocates buffer ids)
    cop, cpc, carg, remain, dst,   \* consumer: operation, position, argument, locals
    wnb,                       \* last wait_next_block call: status loaded, read_size before, result,
                               \* and whether an earlier call of the session returned false
    rd,                        \* last xsgetn call: cursor, count, return value
    lp,                        \* CalcTotal loop: pos, iterations, per-byte consumption count
    hist,                      \* session history: failure seen, true returns, false seen
    last,                      \* the consumer call that returned last: open/seek/wait, argument, result
    wroteFreed,                \* the engine wrote into a released buffer
    mmap_,                     \* MemoryMappedFile::PImpl of the mapped stream: file_, mapping_, data_, size_, mode_
    strm,                      \* MMapStreamBuf / MMapStream: pptr, gptr, pmax_, failbit, and where the instance is
    disk,                      \* the file the mapped stream names: exists, bytes
    mlast,                     \* the mapped stream's call that returned last, with what it saw before
    mlog,                      \* history of the mapped stream's write session
    cb,                        \* one CreateBuffer(size) evaluation: size, page_size, allocated length
    peer,                      \* a second DStorageStreamBuf v and swap(v): swapped, the PImpl do_read()
                               \* bound its reference m to, the status in v's original PImpl
    do_close                   \* the do_close lambda handed to concurrency::create_task(): the PImpl
                               \* moved into it, the size to truncate to, and whether it still has to run

vars == << g_d3d12_device, g_ds_factory, g_ds_queue, s_resolve_imports,
           g_ds_staging_buffer_size, queue, errRec, fence_, mem,
           released, extracted, buf_, file_size_, read_size_, event_pos_, state_, events_,
           future_, tpc, ntasks, gptr, egptr, nsess, cop, cpc, carg, remain,
           dst, wnb, rd, lp, hist, last, wroteFreed, mmap_, strm, disk, mlast,
           mlog, cb, peer, do_close >>

globals == << g_d3d12_device, g_ds_factory, g_ds_queue, s_resolve_imports,
             g_ds_staging_buffer_size >>
engineV == << queue, errRec, fence_, mem, wroteFreed >>
pimplV  == << buf_, file_size_, read_size_, event_pos_, state_, events_, future_ >>
getV    == << gptr, egptr >>
consV   == << cop, cpc, carg, remain, dst >>
histV   == << wnb, rd, lp, hist >>

NullFence == [null |-> TRUE, val |-> 0, on |-> << >>]
NoWnb == [s |-> idle, rs0 |-> 0, ret |-> "none", af |-> FALSE]
NoRd == [p |-> 0, n |-> 0, ret |-> -1]
NoLp == [pos |-> 0, iters |-> 0, seen |-> [i \in 1 .. MaxLen |-> 0], done |-> FALSE]
\* failbit: the stream's failbit as DStorageStream::open() leaves it
NoLast == [op |-> "none", arg |-> 0, ret |-> 0, failbit |-> FALSE]
NoHist == [failed |-> FALSE, ntrue |-> 0, falseSeen |-> FALSE, len |-> 0, fresh |-> FALSE]

\* the mapped stream (MemoryMappedFile / MMapStreamBuf) and CreateBuffer have
\* specifications of their own; everywhere else they rest in these values
otherV == << mmap_, strm, disk, mlast, mlog, cb, peer, do_close >>
\* MemoryMappedFile without a PImpl, or with a default one: data() null, size() 0
\* mode_ is in / out; async_unmap is the 0x2000 bit of mode_
ClosedMap == [file_ |-> "null", mapping_ |-> FALSE, data_ |-> 0, size_ |-> 0, mode_ |-> "none",
              async_unmap |-> FALSE]
\* no task was created
NoTask == [pending |-> FALSE, m |-> ClosedMap, filesize |-> 0, truncate |-> FALSE]
\* a default-constructed MMapStream: null put and get pointers, pmax_ = 0, goodbit
NewStream == [pptr |-> 0, gptr |-> 0, pmax_ |-> 0, failbit |-> FALSE, pc |-> "new"]
NoFile == [exists |-> FALSE, bytes |-> << >>]
NoMLast == [op |-> "none", mode |-> "none", arg |-> 0, ret |-> 0, p0 |-> 0, cap0 |-> 0, pmax0 |-> 0,
            maps |-> 0, out |-> << >>]
NoMLog == [img |-> << >>, hw |-> 0, nops |-> 0, seeks |-> 0, inst |-> 0,
           created |-> "none", ended |-> "none"]
NoCb == [size |-> 0, page_size |-> 1, len |-> 0, done |-> FALSE]
\* no swap yet, do_read() has not evaluated *pimpl_ yet, v is default-constructed;
\* tpc, failed, set: a session of v's own on the shared queue (its do_read()
\* position, one of its requests failed, its last event is set)
NoPeer == [swapped |-> FALSE, bound |-> "none", state_ |-> 0,
           tpc |-> "none", failed |-> FALSE, set |-> FALSE]
NoMappedStream ==
    /\ mmap_ = ClosedMap /\ strm = [NewStream EXCEPT !.pc = "none"]
    /\ disk = NoFile /\ mlast = NoMLast /\ mlog = NoMLog /\ cb = NoCb
    /\ peer = NoPeer /\ do_close = NoTask

\* a constructed instance: the members of a default PImpl, an empty get area
InitInstance ==
    /\ g_ds_staging_buffer_size \in 1 .. MaxChunk
    /\ queue = << >>
    /\ errRec = FALSE
    /\ fence_ = NullFence
    /\ mem = << >>
    /\ released = {} /\ extracted = {}
    /\ buf_ = 0 /\ file_size_ = 0 /\ read_size_ = 0 /\ event_pos_ = 0
    /\ state_ = idle /\ events_ = << >>
    /\ future_ = "none"
    /\ tpc = "none"
    /\ ntasks = 0
    /\ gptr = 0 /\ egptr = 0
    /\ nsess = 0
    /\ cop = "none" /\ cpc = "ready" /\ carg = 0 /\ remain = 0 /\ dst = << >>
    /\ wnb = NoWnb /\ rd = NoRd /\ lp = NoLp /\ hist = NoHist /\ last = NoLast
    /\ wroteFreed = FALSE

\* the first instance has been constructed and the initializer created the
\* whole engine session (device, factory, queue) or none of it
Init ==
    /\ g_ds_factory \in BOOLEAN
    /\ g_d3d12_device = g_ds_factory /\ g_ds_queue = g_ds_factory
    /\ s_resolve_imports = TRUE
    /\ InitInstance
    /\ NoMappedStream

\* ---- the transfer engine (IDStorageQueue + ID3D12Fence) -----------------
\* ceil(file_size / staging) as open() computes it
EventCountFloor(size, staging) == size \div staging
EventCount(size, staging) == (size \div staging) + (IF size % staging # 0 THEN 1 ELSE 0)

\* the i-th request of the enqueue loop: file range [off, off+len) -> buffer + off
RequestOfWholeChunk(i, size, staging, b) ==
    [kind |-> "req", off |-> (i - 1) * staging, len |-> staging, dest |-> b]
RequestOf(i, size, staging, b) ==
    [kind |-> "req", off |-> (i - 1) * staging,
     len |-> Min(staging, size - (i - 1) * staging), dest |-> b]
\* the fence signal enqueued after request i (progress after the request)
SignalOf(i, size, staging) ==
    [kind |-> "sig", val |-> Min(i * staging, size)]

RECURSIVE Batch(_, _, _, _)
Batch(i, size, staging, b) ==
    IF (i - 1) * staging >= size THEN << >>
    ELSE << RequestOf(i, size, staging, b), SignalOf(i, size, staging) >>
         \o Batch(i + 1, size, staging, b)

\* SetEventOnCompletion(progress, events_[i]) for every request of the loop
RegistrationsAtFirst(i, size, staging) ==
    [k \in 1 .. EventCount(size, staging) |-> Min(staging, size)]
RECURSIVE Registrations(_, _, _)
Registrations(i, size, staging) ==
    IF (i - 1) * staging >= size THEN << >>
    ELSE << Min(i * staging, size) >> \o Registrations(i + 1, size, staging)

\* events a fence value sets: every registered event whose target is reached
EventsAllSet(ev, on, val) == [i \in 1 .. Len(ev) |-> TRUE]
EventsAfterSignal(ev, on, val) ==
    [i \in 1 .. Len(ev) |-> ev[i] \/ (i <= Len(on) /\ on[i] <= val)]

\* the allocation whose content mem holds: the session's buffer, or after
\* extract() the buffer the caller took over (it stays allocated)
MemBuf ==
    IF buf_ # 0 THEN buf_
    ELSE IF mem # << >> /\ extracted # {}
         THEN CHOOSE b \in extracted : \A c \in extracted : c <= b
         ELSE 0

\* the engine completes the request at the head of the queue: it copies the
\* chunk into its destination, or the request fails and the failure is recorded
EngineRequest ==
    /\ queue # << >>
    /\ Head(queue).kind = "req"
    /\ LET r == Head(queue)
           live == r.dest # 0 /\ r.dest = MemBuf /\ r.dest \notin released
       IN
       /\ queue' = Tail(queue)
       /\ \/ /\ mem' = IF live
                        THEN [i \in 1 .. Len(mem) |->
                                IF i > r.off /\ i <= r.off + r.len
                                THEN FileByte(i - 1) ELSE mem[i]]
                        ELSE mem
             /\ wroteFreed' = (wroteFreed \/ ~live)
             /\ UNCHANGED << errRec, hist >>
          \/ /\ errRec' = TRUE
             /\ hist' = [hist EXCEPT !.failed = TRUE]
             /\ UNCHANGED << mem, wroteFreed >>
    /\ UNCHANGED << globals, extracted, otherV, fence_, released, pimplV, tpc, ntasks, getV, nsess, consV,
                    wnb, rd, lp >>
    /\ UNCHANGED last

\* the engine executes the fence signal at the head of the queue
EngineSignal ==
    /\ queue # << >>
    /\ Head(queue).kind = "sig"
    /\ queue' = Tail(queue)
    /\ fence_' = [fence_ EXCEPT !.val = Head(queue).val]
    /\ events_' = EventsAfterSignal(events_, fence_.on, Head(queue).val)
    /\ UNCHANGED << globals, extracted, otherV, errRec, mem, wroteFreed, released, buf_, file_size_,
                    read_size_, event_pos_, state_, future_, tpc, ntasks, getV, nsess,
                    consV, histV >>
    /\ UNCHANGED last

\* ---- do_read(): the background task -------------------------------------
\* a member call through a null com_ptr: the access faults, or the call does
\* something else; what the program does after it is not followed any further
NullCall == {"crashed", "undefined"}

\* g_ds_factory->OpenFile(): fails or succeeds; on success the fence is created
DoReadOpenFile ==
    /\ tpc = "openfile"
    /\ \/ /\ state_' = error_file_open_failed
          /\ tpc' = "signal_all"
          /\ hist' = [hist EXCEPT !.failed = TRUE]
          /\ UNCHANGED fence_
       \/ /\ IF g_d3d12_device
             THEN /\ fence_' = [null |-> FALSE, val |-> 0, on |-> << >>]
                  /\ tpc' = "submit"
             ELSE \* g_d3d12_device->CreateFence() through a null pointer
                  /\ tpc' \in NullCall
                  /\ UNCHANGED fence_
          /\ UNCHANGED << state_, hist >>
    /\ UNCHANGED ntasks
    /\ UNCHANGED << globals, extracted, otherV, queue, errRec, mem, wroteFreed, released, buf_,
                    file_size_, read_size_, event_pos_, events_, future_, getV,
                    nsess, consV, wnb, rd, lp >>
    /\ UNCHANGED last

\* signal_all(): SetEvent on every event of the session
SignalAllSkipped(ev) == ev
SignalAll(ev) == [i \in 1 .. Len(ev) |-> TRUE]

\* signal_all() on the failure path, then return hr
DoReadSignalAll ==
    /\ tpc = "signal_all"
    /\ events_' = SignalAll(events_)
    /\ tpc' = "done"
    /\ ntasks' = ntasks - 1
    /\ UNCHANGED << globals, extracted, otherV, engineV, released, buf_, file_size_, read_size_,
                    event_pos_, state_, future_, getV, nsess, consV, histV >>
    /\ UNCHANGED last

\* the enqueue loop and Submit()
DoReadSubmit ==
    /\ tpc = "submit"
    /\ IF g_ds_queue /\ EventCount(file_size_, g_ds_staging_buffer_size) > Len(events_)
       THEN \* m.events_[i] with i >= m.events_.size(): an access past the end
            /\ tpc' \in NullCall
            /\ UNCHANGED << queue, fence_ >>
       ELSE IF g_ds_queue
       THEN /\ queue' = queue \o Batch(1, file_size_, g_ds_staging_buffer_size, buf_)
            /\ fence_' = [fence_ EXCEPT !.on = Registrations(1, file_size_, g_ds_staging_buffer_size)]
            /\ tpc' = "setreading"
       ELSE \* g_ds_queue->EnqueueRequest() through a null pointer
            /\ tpc' \in NullCall
            /\ UNCHANGED << queue, fence_ >>
    /\ UNCHANGED ntasks
    /\ UNCHANGED << globals, extracted, otherV, errRec, mem, wroteFreed, released, pimplV, getV,
                    nsess, consV, histV >>
    /\ UNCHANGED last

\* m.state_ = status_code::reading
DoReadSetReading ==
    /\ tpc = "setreading"
    /\ state_' = reading
    /\ tpc' = "waitlast"
    /\ UNCHANGED ntasks
    /\ UNCHANGED << globals, extracted, otherV, engineV, released, buf_, file_size_, read_size_,
                    event_pos_, events_, future_, getV, nsess, consV, histV >>
    /\ UNCHANGED last

\* RetrieveErrorRecord(): FAILED(FirstFailure.HResult) -> error_unknown, else completed
FinalStatusRelaunched == IF errRec THEN error_unknown ELSE launched
FinalStatus == IF errRec THEN error_unknown ELSE completed

\* WaitForSingleObject(events_.back()), RetrieveErrorRecord, final status
DoReadFinish ==
    /\ tpc = "waitlast"
    /\ Len(events_) > 0 /\ events_[Len(events_)]
    /\ state_' = FinalStatus
    /\ errRec' = FALSE
    /\ tpc' = "done"
    /\ ntasks' = ntasks - 1
    /\ UNCHANGED << globals, extracted, otherV, queue, fence_, mem, wroteFreed, released, buf_,
                    file_size_, read_size_, event_pos_, events_, future_, getV,
                    nsess, consV, histV >>
    /\ UNCHANGED last

\* ---- the consumer thread ------------------------------------------------
Head_ == IF buf_ = 0 THEN 0 ELSE Base(buf_)

\* if (future_.valid()) future_.wait();  -- the caller blocks until do_read() returned
FutureWaitSkipped == TRUE
FutureWait == future_ = "none" \/ tpc = "done"

\* m = {}: every member back to its default, the buffer handed to its deleter
ResetPImpl ==
    /\ released' = IF buf_ = 0 THEN released ELSE released \cup {buf_}
    /\ mem' = << >>
    /\ fence_' = NullFence
    /\ buf_' = 0 /\ file_size_' = 0 /\ read_size_' = 0 /\ event_pos_' = 0
    /\ state_' = idle /\ events_' = << >>
    /\ future_' = "none"
    /\ tpc' = "none"

\* close() / ~DStorageStreamBuf() / open(path) are entered: the first thing
\* each does is close()'s future_.wait()
CloseCall ==
    /\ cop = "none"
    /\ state_ # idle
    /\ cop' = "close"
    /\ UNCHANGED << globals, extracted, otherV, engineV, released, pimplV, tpc, ntasks, getV, nsess,
                    cpc, carg, remain, dst, histV >>
    /\ last' = NoLast

DestroyCall ==
    /\ cop = "none"
    /\ s_resolve_imports
    /\ cop' = "destroy"
    /\ UNCHANGED << globals, extracted, otherV, engineV, released, pimplV, tpc, ntasks, getV, nsess,
                    cpc, carg, remain, dst, histV >>
    /\ last' = NoLast

OpenCall(path) ==
    /\ cop = "none"
    /\ s_resolve_imports
    /\ nsess < MaxSessions
    /\ cop' = "open" /\ carg' = path
    /\ UNCHANGED << globals, extracted, otherV, engineV, released, pimplV, tpc, ntasks, getV, nsess,
                    cpc, remain, dst, histV >>
    /\ last' = NoLast

\* close() after the wait: m = {}
Close ==
    /\ cop = "close"
    /\ FutureWait
    /\ ResetPImpl
    /\ cop' = "none"
    /\ wnb' = NoWnb /\ rd' = NoRd /\ lp' = NoLp /\ hist' = NoHist /\ dst' = << >>
    /\ UNCHANGED << globals, extracted, otherV, queue, errRec, wroteFreed, ntasks, getV, nsess, cpc,
                    carg, remain >>
    /\ UNCHANGED last

\* ~DStorageStreamBuf(): close(), after which the instance takes no more calls
Destroy ==
    /\ cop = "destroy"
    /\ FutureWait
    /\ ResetPImpl
    /\ cop' = "destroyed"
    /\ wnb' = NoWnb /\ rd' = NoRd /\ lp' = NoLp /\ hist' = NoHist /\ dst' = << >>
    /\ UNCHANGED << globals, extracted, otherV, queue, errRec, wroteFreed, ntasks, getV, nsess, cpc,
                    carg, remain >>
    /\ UNCHANGED last

\* std::filesystem::file_size(path, ec) on failure: static_cast<uintmax_t>(-1)
FileSizeError == 1000000

\* DStorageStream::open(): buf_.open() returned ok -> clear(), else setstate(failbit)
OpenResultAlwaysOk(path, ok) ==
    [op |-> "open", arg |-> path, ret |-> 1, failbit |-> FALSE]
OpenResult(path, ok) ==
    [op |-> "open", arg |-> path, ret |-> IF ok THEN 1 ELSE 0, failbit |-> ~ok]

\* open(path): close(), then the size query, the buffer, the events, the task
Open ==
    /\ cop = "open"
    /\ FutureWait
    /\ cop' = "none" /\ carg' = 0
    /\ nsess' = nsess + 1
    /\ released' = IF buf_ = 0 THEN released ELSE released \cup {buf_}
    /\ read_size_' = 0 /\ event_pos_' = 0
    /\ wnb' = NoWnb /\ rd' = NoRd /\ lp' = NoLp /\ dst' = << >>
    /\ IF ~g_ds_factory THEN
          /\ state_' = error_dll_not_found
          /\ last' = OpenResult(carg, FALSE)
          /\ buf_' = 0 /\ file_size_' = 0 /\ events_' = << >> /\ mem' = << >>
          /\ fence_' = NullFence /\ future_' = "none" /\ tpc' = "none"
          /\ hist' = NoHist
          /\ UNCHANGED << getV, ntasks >>
       ELSE IF carg = NoPath THEN
          /\ state_' = error_file_open_failed
          /\ last' = OpenResult(carg, FALSE)
          /\ file_size_' = FileSizeError
          /\ buf_' = 0 /\ events_' = << >> /\ mem' = << >>
          /\ fence_' = NullFence /\ future_' = "none" /\ tpc' = "none"
          /\ hist' = NoHist
          /\ UNCHANGED << getV, ntasks >>
       ELSE IF carg = 0 THEN
          /\ state_' = completed
          /\ last' = OpenResult(carg, TRUE)
          /\ file_size_' = 0
          /\ buf_' = 0 /\ events_' = << >> /\ mem' = << >>
          /\ fence_' = NullFence /\ future_' = "none" /\ tpc' = "none"
          /\ hist' = [NoHist EXCEPT !.fresh = TRUE]
          /\ UNCHANGED << getV, ntasks >>
       ELSE
          /\ file_size_' = carg
          /\ buf_' = nsess + 1
          /\ mem' = [i \in 1 .. carg |-> Unwritten]
          /\ gptr' = Base(nsess + 1) /\ egptr' = Base(nsess + 1)
          /\ events_' = [i \in 1 .. EventCount(carg, g_ds_staging_buffer_size) |-> FALSE]
          /\ fence_' = NullFence
          /\ state_' = launched
          /\ last' = OpenResult(carg, TRUE)
          /\ future_' = "valid"
          /\ tpc' = "openfile"
          /\ ntasks' = ntasks + 1
          /\ hist' = [NoHist EXCEPT !.fresh = TRUE, !.len = carg]
    /\ UNCHANGED << globals, extracted, otherV, queue, errRec, wroteFreed, cpc, remain >>

\* is_open(): state_ >= status_code::launched
IsOpen == state_ >= launched

\* ---- wait_next_block() --------------------------------------------------
\* the status load and the branch on it: return false, or block on events_[event_pos_]
WnbEntry ==
    /\ cpc = "entry"
    /\ IF state_ <= idle \/ ~(event_pos_ < Len(events_))
       THEN /\ cpc' = "retfalse"
            /\ wnb' = [s |-> state_, rs0 |-> read_size_, ret |-> "false", af |-> hist.falseSeen]
            /\ hist' = [hist EXCEPT !.falseSeen = TRUE]
       ELSE /\ cpc' = "blocked"
            /\ wnb' = [s |-> state_, rs0 |-> read_size_, ret |-> "pending", af |-> hist.falseSeen]
            /\ UNCHANGED hist
    /\ UNCHANGED << globals, extracted, otherV, engineV, released, pimplV, tpc, ntasks, getV, nsess, cop,
                    carg, remain, dst, rd, lp >>
    /\ UNCHANGED last

\* read_size_ after the wait: the fence's completed value, 0 without a fence
ReadSizeByCount == (event_pos_ + 1) * g_ds_staging_buffer_size
ReadSizeAfterWait == IF fence_.null THEN 0 ELSE fence_.val

\* WaitForSingleObject returned: read_size_, event_pos_, setg(), return true
WnbWake ==
    /\ cpc = "blocked"
    /\ event_pos_ < Len(events_)
    /\ events_[event_pos_ + 1]
    /\ read_size_' = ReadSizeAfterWait
    /\ event_pos_' = event_pos_ + 1
    /\ egptr' = Head_ + read_size_'
    /\ cpc' = "rettrue"
    /\ wnb' = [wnb EXCEPT !.ret = "true"]
    /\ hist' = [hist EXCEPT !.ntrue = @ + 1]
    /\ UNCHANGED << globals, extracted, otherV, engineV, released, buf_, file_size_, state_,
                    events_, future_, tpc, ntasks, gptr, nsess, cop, carg, remain, dst,
                    rd, lp >>
    /\ UNCHANGED last

\* a direct call of wait_next_block()
WnbCall ==
    /\ cop = "none"
    /\ cop' = "wnb" /\ cpc' = "entry"
    /\ hist' = [hist EXCEPT !.fresh = FALSE]
    /\ rd' = NoRd /\ dst' = << >> /\ lp' = NoLp
    /\ UNCHANGED << globals, extracted, otherV, engineV, released, pimplV, tpc, ntasks, getV, nsess, carg,
                    remain, wnb >>
    /\ last' = NoLast

WnbReturn ==
    /\ cop = "wnb"
    /\ cpc \in {"rettrue", "retfalse"}
    /\ cop' = "none" /\ cpc' = "ready"
    /\ UNCHANGED << globals, extracted, otherV, engineV, released, pimplV, tpc, ntasks, getV, nsess, carg,
                    remain, dst, histV >>
    /\ UNCHANGED last

\* ---- xsgetn() -----------------------------------------------------------
\* the byte memcpy reads at an address: a byte of the live buffer, else Stale
Fetch(addr) ==
    IF MemBuf # 0 /\ addr >= Base(MemBuf) /\ addr < Base(MemBuf) + file_size_
    THEN mem[addr - Base(MemBuf) + 1] ELSE Stale
InvalidRange(src, n) ==
    \E k \in 0 .. n - 1 :
        ~(MemBuf # 0 /\ src + k >= Base(MemBuf) /\ src + k < Base(MemBuf) + file_size_)

\* std::min(remain, size_t(tail - src)): a negative difference wraps to a huge size_t
CopyLenOneByte(rem, tail, src) == IF tail - src < 0 THEN rem ELSE Min(1, tail - src)
CopyLen(rem, tail, src) == IF tail - src < 0 THEN rem ELSE Min(rem, tail - src)

\* one pass of the while (remain) body up to the underflow() call, started with
\* `rem` bytes outstanding and d copied so far; r is the record of the call
XsgetnPass(rem, d, r) ==
    LET tail == Head_ + read_size_
        src == gptr
        n == CopyLen(rem, tail, src)
        bad == InvalidRange(src, n)
    IN IF bad
       THEN \* memcpy from addresses outside the live buffer: the access faults
            \* (no return), or it yields stale bytes and the call goes on; what
            \* the program does after that read is not followed any further
            \E fault \in BOOLEAN :
              /\ cop' = IF fault THEN "crashed" ELSE "undefined"
              /\ cpc' = "ready"
              /\ dst' = IF fault THEN d ELSE d \o [k \in 1 .. n |-> Fetch(src + k - 1)]
              /\ remain' = 0
              /\ rd' = IF fault \/ rem - n > 0 THEN r ELSE [r EXCEPT !.ret = r.n]
              /\ carg' = 0
              /\ UNCHANGED getV
       ELSE /\ dst' = d \o [k \in 1 .. n |-> Fetch(src + k - 1)]
            /\ gptr' = src + n /\ egptr' = tail
            /\ remain' = rem - n
            /\ carg' = 0
            /\ IF rem - n > 0
               THEN /\ cop' = "read" /\ cpc' = "entry"
                    /\ rd' = r
               ELSE /\ cop' = "none" /\ cpc' = "ready"
                    /\ rd' = [r EXCEPT !.ret = r.n]

\* xsgetn(dst, count) up to its first underflow() or its return
ReadCall(count) ==
    /\ cop = "none"
    /\ hist' = [hist EXCEPT !.fresh = FALSE]
    /\ LET r == [p |-> gptr - Head_, n |-> count, ret |-> -1] IN
       IF count = 0
       THEN /\ rd' = [r EXCEPT !.ret = 0]
            /\ dst' = << >> /\ remain' = 0
            /\ UNCHANGED << cop, cpc, carg, getV >>
       ELSE XsgetnPass(count, << >>, r)
    /\ wnb' = NoWnb /\ lp' = NoLp
    /\ UNCHANGED << globals, extracted, otherV, engineV, released, pimplV, tpc, ntasks, nsess >>
    /\ last' = NoLast

\* xsgetn() after underflow() returned: eof ends the call, else the next pass
ReadResume ==
    /\ cop = "read"
    /\ cpc \in {"rettrue", "retfalse"}
    /\ IF cpc = "retfalse"
       THEN /\ rd' = [rd EXCEPT !.ret = rd.n - remain]
            /\ cop' = "none" /\ cpc' = "ready"
            /\ remain' = 0
            /\ UNCHANGED << getV, carg, dst >>
       ELSE XsgetnPass(remain, dst, rd)
    /\ UNCHANGED << globals, extracted, otherV, engineV, released, pimplV, tpc, ntasks, nsess, wnb, lp, hist >>
    /\ UNCHANGED last

\* ---- seekoff(off, std::ios::beg) ----------------------------------------
\* current = std::min(current, head + read_size_); setg(current, current, tail)
SeekFinishNoClamp(off) ==
    /\ gptr' = Head_ + off
    /\ egptr' = Head_ + file_size_
    /\ cop' = "none" /\ cpc' = "ready"
    /\ carg' = 0
    /\ last' = [NoLast EXCEPT !.op = "seek", !.arg = off, !.ret = off]
SeekFinish(off) ==
    /\ gptr' = Min(Head_ + off, Head_ + read_size_)
    /\ egptr' = Head_ + file_size_
    /\ cop' = "none" /\ cpc' = "ready"
    /\ carg' = 0
    \* return pos_type(current - head)
    /\ last' = [NoLast EXCEPT !.op = "seek", !.arg = off,
                              !.ret = Min(Head_ + off, Head_ + read_size_) - Head_]

SeekCall(off) ==
    /\ cop = "none"
    /\ hist' = [hist EXCEPT !.fresh = FALSE]
    /\ IF read_size_ < off
       THEN /\ cop' = "seek" /\ cpc' = "entry"
            /\ carg' = off
            /\ last' = NoLast
            /\ UNCHANGED getV
       ELSE SeekFinish(off)
    /\ wnb' = NoWnb /\ rd' = NoRd /\ dst' = << >> /\ lp' = NoLp
    /\ UNCHANGED << globals, extracted, otherV, engineV, released, pimplV, tpc, ntasks, nsess, remain >>

SeekResume ==
    /\ cop = "seek"
    /\ cpc \in {"rettrue", "retfalse"}
    /\ IF cpc = "rettrue" /\ read_size_ < carg
       THEN /\ cpc' = "entry"
            /\ UNCHANGED << cop, carg, getV, last >>
       ELSE SeekFinish(carg)
    /\ UNCHANGED << globals, extracted, otherV, engineV, released, pimplV, tpc, ntasks, nsess, remain,
                    dst, histV >>

\* ---- wait() -------------------------------------------------------------
\* future_.wait(); future_ = {}; then the wait_next_block() loop
WaitReturn == [NoLast EXCEPT !.op = "wait", !.ret = IF state_ = completed THEN 1 ELSE 0]

WaitCall ==
    /\ cop = "none"
    /\ FutureWait
    /\ IF future_ = "valid"
       THEN /\ future_' = "none"
            /\ cop' = "wait" /\ cpc' = "entry"
            /\ last' = NoLast
       ELSE /\ last' = WaitReturn
            /\ UNCHANGED << future_, cop, cpc >>
    /\ hist' = [hist EXCEPT !.fresh = FALSE]
    /\ wnb' = NoWnb /\ rd' = NoRd /\ dst' = << >> /\ lp' = NoLp
    /\ UNCHANGED << globals, extracted, otherV, engineV, released, buf_, file_size_, read_size_,
                    event_pos_, state_, events_, tpc, ntasks, getV, nsess, carg, remain >>

WaitResume ==
    /\ cop = "wait"
    /\ cpc \in {"rettrue", "retfalse"}
    /\ IF cpc = "rettrue"
       THEN cpc' = "entry" /\ UNCHANGED << cop, last >>
       ELSE cop' = "none" /\ cpc' = "ready" /\ last' = WaitReturn
    /\ UNCHANGED << globals, extracted, otherV, engineV, released, pimplV, tpc, ntasks, getV, nsess, carg,
                    remain, dst, histV >>

\* ---- CalcTotal<DStorageStream>: while (wait_next_block()) consume ---------
\* if (ifs.open(path)) { size_t pos = 0; while (ifs.wait_next_block()) ...
LoopCall ==
    /\ cop = "none"
    /\ hist.fresh
    /\ cop' = "loop" /\ cpc' = "entry"
    /\ lp' = NoLp
    /\ hist' = [hist EXCEPT !.fresh = FALSE]
    /\ wnb' = NoWnb /\ rd' = NoRd /\ dst' = << >>
    /\ UNCHANGED << globals, extracted, otherV, engineV, released, pimplV, tpc, ntasks, getV, nsess, carg,
                    remain >>
    /\ last' = NoLast

\* the loop body: the span [pos, read_size()) is consumed, pos = read_size()
LoopResume ==
    /\ cop = "loop"
    /\ cpc \in {"rettrue", "retfalse"}
    /\ IF cpc = "rettrue"
       THEN /\ lp' = [lp EXCEPT
                        !.seen = [i \in 1 .. MaxLen |->
                                    IF i > lp.pos /\ i <= read_size_
                                    THEN Min(lp.seen[i] + 1, 2) ELSE lp.seen[i]],
                        !.iters = @ + 1,
                        !.pos = read_size_]
            /\ cpc' = "entry" /\ UNCHANGED cop
       ELSE /\ lp' = [lp EXCEPT !.done = TRUE]
            /\ cop' = "none" /\ cpc' = "ready"
    /\ UNCHANGED << globals, extracted, otherV, engineV, released, pimplV, tpc, ntasks, getV, nsess, carg,
                    remain, dst, wnb, rd, hist >>
    /\ UNCHANGED last

\* ---- the system ---------------------------------------------------------
Next ==
    \/ \E path \in Paths : OpenCall(path)
    \/ Open
    \/ CloseCall \/ Close
    \/ DestroyCall \/ Destroy
    \/ WnbCall \/ WnbEntry \/ WnbWake \/ WnbReturn
    \/ \E count \in 0 .. MaxLen + 1 : ReadCall(count)
    \/ ReadResume
    \/ \E off \in 0 .. MaxLen + 1 : SeekCall(off)
    \/ SeekResume
    \/ WaitCall \/ WaitResume
    \/ LoopCall \/ LoopResume
    \/ EngineRequest \/ EngineSignal
    \/ DoReadOpenFile \/ DoReadSignalAll \/ DoReadSubmit \/ DoReadSetReading
    \/ DoReadFinish

Spec == Init /\ [][Next]_vars

\* ======================= the polling variant ==============================
\* src/src/dstorage_stream.cpp: open() only launches do_read(); do_read() learns
\* the file size, sizes the buffer, creates the fence and one fence_event_ for
\* the last signal; wait_next_block() polls the fence and the status.
\* hist.len holds the length of the file m.path_ names (NoPath: no such file).

\* open(path): close(), the factory check, state launched, std::async
PollOpen ==
    /\ cop = "open"
    /\ FutureWait
    /\ cop' = "none" /\ carg' = 0
    /\ nsess' = nsess + 1
    /\ released' = IF buf_ = 0 THEN released ELSE released \cup {buf_}
    /\ mem' = << >> /\ fence_' = NullFence
    /\ buf_' = 0 /\ file_size_' = 0 /\ read_size_' = 0 /\ event_pos_' = 0
    /\ events_' = << >>
    /\ wnb' = NoWnb /\ rd' = NoRd /\ lp' = NoLp /\ dst' = << >>
    /\ IF ~g_ds_factory THEN
          /\ state_' = error_dll_not_found
          /\ last' = OpenResult(carg, FALSE)
          /\ future_' = "none" /\ tpc' = "none"
          /\ hist' = NoHist
          /\ UNCHANGED ntasks
       ELSE
          /\ state_' = launched
          /\ last' = OpenResult(carg, TRUE)
          /\ future_' = "valid"
          /\ tpc' = "openfile"
          /\ ntasks' = ntasks + 1
          /\ hist' = [NoHist EXCEPT !.len = carg]
    /\ UNCHANGED << globals, extracted, otherV, queue, errRec, wroteFreed, getV, cpc, remain >>

\* OpenFile() and GetFileInformation(): either fails -> error_file_open_failed
PollDoReadOpenFile ==
    /\ tpc = "openfile"
    /\ \/ /\ state_' = error_file_open_failed
          /\ tpc' = "done"
          /\ ntasks' = ntasks - 1
          /\ hist' = [hist EXCEPT !.failed = TRUE]
       \/ /\ hist.len # NoPath
          /\ tpc' = "resize"
          /\ UNCHANGED << state_, ntasks, hist >>
    /\ UNCHANGED << globals, extracted, otherV, engineV, released, buf_, file_size_, read_size_,
                    event_pos_, events_, future_, getV, nsess, consV, wnb, rd, lp >>
    /\ UNCHANGED last

\* DirtyResize(buf, file_size); m.state_ = status_code::reading
PollDoReadResize ==
    /\ tpc = "resize"
    /\ buf_' = nsess
    /\ file_size_' = hist.len
    /\ mem' = [i \in 1 .. hist.len |-> Unwritten]
    /\ state_' = reading
    /\ tpc' = "fence"
    /\ UNCHANGED << globals, extracted, otherV, queue, errRec, fence_, wroteFreed, released, read_size_,
                    event_pos_, events_, future_, ntasks, getV, nsess, consV, histV >>
    /\ UNCHANGED last

\* CreateFence(0, ...)
PollDoReadCreateFence ==
    /\ tpc = "fence"
    /\ fence_' = [null |-> FALSE, val |-> 0, on |-> << >>]
    /\ tpc' = "submit"
    /\ UNCHANGED << globals, extracted, otherV, queue, errRec, mem, wroteFreed, released, pimplV,
                    ntasks, getV, nsess, consV, histV >>
    /\ UNCHANGED last

\* the enqueue loop, SetEventOnCompletion(progress, fence_event_), Submit()
PollDoReadSubmit ==
    /\ tpc = "submit"
    /\ queue' = queue \o Batch(1, file_size_, g_ds_staging_buffer_size, buf_)
    /\ fence_' = [fence_ EXCEPT !.on = << file_size_ >>]
    /\ events_' = EventsAfterSignal(<< FALSE >>, << file_size_ >>, fence_.val)
    /\ tpc' = "waitlast"
    /\ UNCHANGED << globals, extracted, otherV, errRec, mem, wroteFreed, released, buf_, file_size_,
                    read_size_, event_pos_, state_, future_, ntasks, getV, nsess,
                    consV, histV >>
    /\ UNCHANGED last

\* if (r) { gp = gptr(); if (!gp) gp = buf_.data(); setg(gp, gp, buf_.data() + read_size_); }
PollSetg(rs) ==
    /\ gptr' = IF gptr = 0 THEN Head_ ELSE gptr
    /\ egptr' = Head_ + rs

\* s = m.state_.load() and the branch on it; the completed branch runs to its end
PollWnbEntry ==
    /\ cpc = "entry"
    /\ IF state_ >= launched /\ state_ < completed THEN
          /\ cpc' = "poll"
          /\ wnb' = [s |-> state_, rs0 |-> read_size_, ret |-> "pending",
                     af |-> hist.falseSeen]
          /\ UNCHANGED << read_size_, getV, hist >>
       ELSE IF state_ = completed /\ read_size_ # ReadSizeAfterWait THEN
          /\ read_size_' = ReadSizeAfterWait
          /\ PollSetg(ReadSizeAfterWait)
          /\ cpc' = "rettrue"
          /\ wnb' = [s |-> state_, rs0 |-> read_size_, ret |-> "true",
                     af |-> hist.falseSeen]
          /\ hist' = [hist EXCEPT !.ntrue = @ + 1]
       ELSE
          /\ cpc' = "retfalse"
          /\ wnb' = [s |-> state_, rs0 |-> read_size_, ret |-> "false",
                     af |-> hist.falseSeen]
          /\ hist' = [hist EXCEPT !.falseSeen = TRUE]
          /\ UNCHANGED << read_size_, getV >>
    /\ UNCHANGED << globals, extracted, otherV, engineV, released, buf_, file_size_, event_pos_, state_,
                    events_, future_, tpc, ntasks, nsess, cop, carg, remain, dst, rd, lp >>
    /\ UNCHANGED last

\* v = fence_ ? fence_->GetCompletedValue() : 0;  if (v > pos) { read_size_ = v; r = true; }
PollFence ==
    /\ cpc = "poll"
    /\ IF ReadSizeAfterWait > wnb.rs0 THEN
          /\ read_size_' = ReadSizeAfterWait
          /\ PollSetg(ReadSizeAfterWait)
          /\ cpc' = "rettrue"
          /\ wnb' = [wnb EXCEPT !.ret = "true"]
          /\ hist' = [hist EXCEPT !.ntrue = @ + 1]
       ELSE
          /\ cpc' = "pollstate"
          /\ UNCHANGED << read_size_, getV, wnb, hist >>
    /\ UNCHANGED << globals, extracted, otherV, engineV, released, buf_, file_size_, event_pos_, state_,
                    events_, future_, tpc, ntasks, nsess, cop, carg, remain, dst, rd, lp >>
    /\ UNCHANGED last

\* else if (s = m.state_.load(); s < idle || s == completed) break; else Sleep(0);
PollState ==
    /\ cpc = "pollstate"
    /\ IF state_ < idle \/ state_ = completed THEN
          /\ cpc' = "retfalse"
          /\ wnb' = [wnb EXCEPT !.s = state_, !.ret = "false"]
          /\ hist' = [hist EXCEPT !.falseSeen = TRUE]
       ELSE
          /\ cpc' = "poll"
          /\ wnb' = [wnb EXCEPT !.s = state_]
          /\ UNCHANGED hist
    /\ UNCHANGED << globals, extracted, otherV, engineV, released, pimplV, tpc, ntasks, getV, nsess, cop,
                    carg, remain, dst, rd, lp >>
    /\ UNCHANGED last

\* wait(): if (future_.valid()) { future_.wait(); wait_next_block(); return true; } return false;
PollWaitCall ==
    /\ cop = "none"
    /\ FutureWait
    /\ IF future_ = "valid"
       THEN /\ cop' = "wait" /\ cpc' = "entry"
            /\ last' = NoLast
       ELSE /\ last' = [NoLast EXCEPT !.op = "wait", !.ret = 0]
            /\ UNCHANGED << cop, cpc >>
    /\ hist' = [hist EXCEPT !.fresh = FALSE]
    /\ wnb' = NoWnb /\ rd' = NoRd /\ dst' = << >> /\ lp' = NoLp
    /\ UNCHANGED << globals, extracted, otherV, engineV, released, pimplV, tpc, ntasks, getV, nsess, carg,
                    remain >>

PollWaitResume ==
    /\ cop = "wait"
    /\ cpc \in {"rettrue", "retfalse"}
    /\ cop' = "none" /\ cpc' = "ready"
    /\ last' = [NoLast EXCEPT !.op = "wait", !.ret = 1]
    /\ UNCHANGED << globals, extracted, otherV, engineV, released, pimplV, tpc, ntasks, getV, nsess, carg,
                    remain, dst, histV >>

NextPoll ==
    \/ \E path \in Paths : OpenCall(path)
    \/ PollOpen
    \/ CloseCall \/ Close
    \/ WnbCall \/ PollWnbEntry \/ PollFence \/ PollState \/ WnbReturn
    \/ PollWaitCall \/ PollWaitResume
    \/ EngineRequest \/ EngineSignal
    \/ PollDoReadOpenFile \/ PollDoReadResize \/ PollDoReadCreateFence
    \/ PollDoReadSubmit \/ DoReadFinish

SpecPoll == Init /\ [][NextPoll]_vars

\* ---- the process-wide engine session -------------------------------------
\* Spec and SpecPoll start after the first construction with the whole session
\* or none of it.  SpecEngine starts at process start: the three pointers are
\* null, the application may call set_device() / release_device(), and the
\* first construction runs DirectStorageInitializer once.
instanceV == << engineV, released, pimplV, tpc, ntasks, getV, nsess, cpc, carg,
                remain, dst, histV >>

\* CreateQueue part of the initializer, entered with device d and factory f
InitializerQueue(d, f, queueOk) ==
    IF g_ds_queue THEN [device |-> d, factory |-> f, queue |-> TRUE, fault |-> FALSE]
    ELSE IF ~f
         THEN \* g_ds_factory->SetStagingBufferSize() through a null pointer
              [device |-> d, factory |-> f, queue |-> FALSE, fault |-> TRUE]
         ELSE [device |-> d, factory |-> f, queue |-> queueOk, fault |-> FALSE]

\* DirectStorageInitializer(): imports resolved or not, and the outcome of
\* D3D12CreateDevice, DStorageGetFactory and CreateQueue
DirectStorageInitializer(d3d12, dstorage, deviceOk, factoryOk, queueOk) ==
    LET same == [device |-> g_d3d12_device, factory |-> g_ds_factory,
                 queue |-> g_ds_queue, fault |-> FALSE]
    IN IF g_ds_factory THEN same
       ELSE IF ~g_d3d12_device
            THEN IF ~d3d12 \/ ~dstorage THEN same
                 ELSE IF ~deviceOk \/ ~factoryOk
                      THEN [same EXCEPT !.device = deviceOk, !.factory = factoryOk]
                      ELSE InitializerQueue(TRUE, TRUE, queueOk)
            ELSE InitializerQueue(TRUE, FALSE, queueOk)

\* DStorageStreamBuf::DStorageStreamBuf(): the function-local static runs once
Construct ==
    /\ ~s_resolve_imports
    /\ cop = "none"
    /\ s_resolve_imports' = TRUE
    /\ \E d3d12, dstorage, deviceOk, factoryOk, queueOk \in BOOLEAN :
          LET r == DirectStorageInitializer(d3d12, dstorage, deviceOk, factoryOk, queueOk)
          IN /\ g_d3d12_device' = r.device
             /\ g_ds_factory' = r.factory
             /\ g_ds_queue' = r.queue
             /\ IF r.fault THEN cop' \in NullCall ELSE cop' = cop
    /\ UNCHANGED << g_ds_staging_buffer_size, extracted, otherV, instanceV, last >>

\* DStorageStream::set_device(device, factory = nullptr, queue = nullptr)
SetDevice(device, factory, queue_) ==
    /\ cop = "none"
    /\ tpc \in {"none", "done"}
    /\ g_d3d12_device' = device
    /\ g_ds_factory' = factory
    /\ g_ds_queue' = queue_
    /\ last' = NoLast
    /\ UNCHANGED << s_resolve_imports, g_ds_staging_buffer_size, extracted, otherV,
                    instanceV, cop >>

\* DStorageStream::release_device()
ReleaseDevice ==
    /\ cop = "none"
    /\ tpc \in {"none", "done"}
    /\ g_d3d12_device' = FALSE
    /\ g_ds_factory' = FALSE
    /\ g_ds_queue' = FALSE
    /\ last' = NoLast
    /\ UNCHANGED << s_resolve_imports, g_ds_staging_buffer_size, extracted, otherV,
                    instanceV, cop >>

\* process start: namespace-scope com_ptrs are null, no instance exists yet
InitEngine ==
    /\ g_d3d12_device = FALSE /\ g_ds_factory = FALSE /\ g_ds_queue = FALSE
    /\ s_resolve_imports = FALSE
    /\ InitInstance
    /\ NoMappedStream

NextEngine ==
    \/ \E d, f, q \in BOOLEAN : SetDevice(d, f, q)
    \/ ReleaseDevice
    \/ Construct
    \/ \E p \in Paths : OpenCall(p)
    \/ Open
    \/ DoReadOpenFile \/ DoReadSignalAll \/ DoReadSubmit \/ DoReadSetReading
    \/ DoReadFinish
    \/ EngineRequest \/ EngineSignal

SpecEngine == InitEngine /\ [][NextEngine]_vars


\* ---- extract() ------------------------------------------------------------
\* BufferPtr p = stream.extract(): the caller move-constructs from the returned
\* rvalue reference, which leaves m.buf_ null; nothing else of PImpl and
\* nothing of the get area is touched, and the call does not wait
Extract ==
    /\ cop = "none"
    /\ s_resolve_imports
    /\ extracted' = IF buf_ = 0 THEN extracted ELSE extracted \cup {buf_}
    /\ buf_' = 0
    /\ last' = [NoLast EXCEPT !.op = "extract", !.arg = buf_]
    /\ wnb' = NoWnb /\ rd' = NoRd /\ lp' = NoLp /\ dst' = << >>
    /\ hist' = [hist EXCEPT !.fresh = FALSE]
    /\ UNCHANGED << globals, otherV, engineV, released, file_size_, read_size_,
                    event_pos_, state_, events_, future_, tpc, ntasks, getV, nsess,
                    cop, cpc, carg, remain >>

\* an instance that is opened, read, waited on and extracted from
NextExtract ==
    \/ \E path \in Paths : OpenCall(path)
    \/ Open
    \/ Extract
    \/ WnbEntry \/ WnbWake
    \/ \E count \in 0 .. MaxLen : ReadCall(count)
    \/ ReadResume
    \/ WaitCall \/ WaitResume
    \/ EngineRequest \/ EngineSignal
    \/ DoReadOpenFile \/ DoReadSignalAll \/ DoReadSubmit \/ DoReadSetReading
    \/ DoReadFinish

SpecExtract == Init /\ [][NextExtract]_vars


\* ======================= properties ======================================
InSession == state_ \in {launched, reading, completed}
ErrorFree == ~hist.failed
C == g_ds_staging_buffer_size
CeilDiv(a, b) == (a + b - 1) \div b
ChunkEnds == {0} \cup {Min(k * C, file_size_) : k \in 1 .. EventCount(file_size_, C)}

\* C1: whenever read_size = r in a session, r is the end offset of a chunk,
\* every byte below r has been transferred into the buffer, and no read has
\* copied a byte the engine has not written.
C1_ReadSizeCoversTransferredChunks ==
    buf_ # 0 =>
        /\ read_size_ \in ChunkEnds
        /\ \A i \in 1 .. Len(mem) : i <= read_size_ => mem[i] = FileByte(i - 1)
        /\ \A k \in 1 .. Len(dst) : dst[k] # Unwritten

\* C2: in an error-free session the k-th wait_next_block() that returns true
\* leaves read_size at min(k*C, L): the observed values are C, 2C, ..., L.
C2_ObservedReadSizes ==
    (cpc = "rettrue" /\ ErrorFree) => read_size_ = Min(hist.ntrue * C, hist.len)

\* C3: in an error-free session the loop while (wait_next_block()) { consume
\* [pos, read_size()); pos = read_size(); } ends after exactly ceil(L/C)
\* iterations and has consumed every byte of [0, L) exactly once.
C3_LoopCoversFileOnce ==
    (lp.done /\ ErrorFree /\ InSession) =>
        /\ lp.iters = CeilDiv(hist.len, C)
        /\ lp.pos = hist.len
        /\ \A i \in 1 .. MaxLen : lp.seen[i] = (IF i <= hist.len THEN 1 ELSE 0)
C3_Witness ==
    /\ lp.done /\ ErrorFree /\ InSession
    /\ hist.len = 3 /\ C = 2 /\ lp.iters = 2

\* C4: in an error-free session read(dst, n) at cursor p returns min(n, L - p),
\* copies file bytes p .. p+ret-1 in order and advances the cursor by ret.
C4_ReadReturnsMinOfCountAndRest ==
    (rd.ret >= 0 /\ ErrorFree /\ InSession) =>
        /\ rd.ret = Min(rd.n, hist.len - rd.p)
        /\ dst = [k \in 1 .. rd.ret |-> FileByte(rd.p + k - 1)]
        /\ (cop = "none" => gptr - Head_ = rd.p + rd.ret)
\* the same statement for reads whose get area belongs to the session's buffer
C4_ReadInOwnGetArea ==
    (rd.ret >= 0 /\ ErrorFree /\ InSession /\ cop # "undefined" /\ rd.p <= hist.len) =>
        /\ rd.ret = Min(rd.n, hist.len - rd.p)
        /\ dst = [k \in 1 .. rd.ret |-> FileByte(rd.p + k - 1)]
        /\ (cop = "none" => gptr - Head_ = rd.p + rd.ret)

\* C1 restricted to sessions in which no engine request has failed
C1_ErrorFree ==
    ErrorFree => C1_ReadSizeCoversTransferredChunks

TransferInFlight == tpc \notin {"none", "done"}
PendingRequests == {i \in 1 .. Len(queue) : queue[i].kind = "req"}

\* C5: close(), the destructor and the implicit close in open() keep the
\* destination buffer until the background transfer has returned: the engine
\* never writes into a released buffer, every pending request targets the live
\* buffer, and at most one background transfer exists at any time.
C5_NoWriteIntoReleasedBuffer ==
    /\ ~wroteFreed
    /\ \A i \in PendingRequests : queue[i].dest = buf_ /\ queue[i].dest \notin released
    /\ TransferInFlight => (buf_ # 0 /\ buf_ \notin released)
    /\ ntasks <= 1
C5_Witness ==
    /\ cop \in {"close", "open", "destroy"}
    /\ TransferInFlight
    /\ PendingRequests # {}

C8_TrueReturnAdvances ==
    cpc = "rettrue" => (read_size_ > wnb.rs0 /\ egptr = Head_ + read_size_)

\* C9: 0 <= read_size <= file_size in every state, and read_size never
\* decreases between open() and the next close()/open() of the instance.
C9_ReadSizeBoundedMonotone ==
    /\ [](0 <= read_size_ /\ read_size_ <= file_size_)
    /\ [][(nsess' = nsess /\ state_' # idle) => read_size_' >= read_size_]_vars
C9_Witness ==
    /\ file_size_ = 3 /\ read_size_ = 3 /\ event_pos_ = 2 /\ C = 2

\* C10 as stated: completed implies read_size = file_size, and read_size =
\* file_size of a non-empty file implies completed.
C10_CompletedIffAllRead ==
    /\ (state_ = completed => read_size_ = file_size_)
    /\ (read_size_ = file_size_ /\ file_size_ > 0 => state_ = completed)

\* C10 amended: once the status is completed and wait_next_block() has returned
\* false, read_size = file_size; and read_size = file_size of a non-empty file
\* implies that the last chunk has been signalled and that the status is
\* completed as soon as the background transfer has returned without a
\* recorded failure.
C10_AllReadOnceDrained ==
    /\ (state_ = completed /\ hist.falseSeen => read_size_ = file_size_)
    /\ (state_ > idle /\ read_size_ = file_size_ /\ file_size_ > 0 =>
            /\ fence_.val = file_size_
            /\ (tpc = "done" /\ ErrorFree => state_ = completed))
C10_Witness ==
    /\ state_ = completed /\ hist.falseSeen
    /\ file_size_ = 3 /\ read_size_ = 3

\* C7: within one session, once wait_next_block() has returned false no later
\* call returns true.
C7_FalseIsFinal ==
    ~(wnb.ret = "true" /\ wnb.af)

Boundary(p) == Min(CeilDiv(p, C) * C, file_size_)

\* C12: a seek or read that had to wait leaves read_size at the smallest chunk
\* boundary that covers the offset it needed, in a session without failure.
C12_WaitsForNoMoreThanNeeded ==
    (ErrorFree /\ InSession /\ cop = "none" /\ wnb.ret = "true") =>
        /\ (last.op = "seek" => read_size_ = Boundary(last.arg))
        /\ (rd.ret = rd.n /\ rd.n > 0 => read_size_ = Boundary(rd.p + rd.n))

\* a read that waits has its event already set: WaitForSingleObject returns at once
ReadWaitReturnsAtOnce ==
    (cop = "read" /\ cpc = "blocked") => events_[event_pos_ + 1]
ReadFaulted == cop \in {"crashed", "undefined"}

\* C13: once the status is completed every read() returns without blocking; a
\* read at cursor = file_size returns 0 bytes and leaves read_size unchanged.
C13_ReadNeverBlocksOnceCompleted ==
    state_ = completed =>
        /\ ReadWaitReturnsAtOnce
        /\ ~ReadFaulted
        /\ (rd.ret >= 0 /\ rd.p = file_size_ =>
                rd.ret = 0 /\ read_size_ = file_size_)
\* the same statement for sessions that own a buffer (file_size > 0)
C13_NonEmptySession ==
    (state_ = completed /\ buf_ # 0) => C13_ReadNeverBlocksOnceCompleted

\* the next wait_next_block() of the event-per-chunk variant returns false at once
NextWnbFalse == state_ <= idle \/ ~(event_pos_ < Len(events_))

\* C14: when wait() has returned on an opened session the status is terminal,
\* a following wait_next_block() returns false without blocking, wait() reports
\* whether the status is completed, and in a completed session read_size and
\* the end of the get area are where the wait_next_block() loop leaves them:
\* at file_size.
C14_WaitLeavesTerminalAndDrained ==
    (last.op = "wait" /\ state_ # idle) =>
        /\ state_ \in Terminal
        /\ NextWnbFalse
        /\ last.ret = (IF state_ = completed THEN 1 ELSE 0)
        /\ (state_ = completed =>
                /\ read_size_ = file_size_
                /\ (buf_ # 0 => egptr = Head_ + read_size_))
C14_Witness ==
    /\ last.op = "wait" /\ state_ = completed
    /\ file_size_ = 3 /\ read_size_ = 3 /\ event_pos_ = 2
\* the polling variant: after wait() the status is terminal and the next
\* wait_next_block() finds nothing new
C14_PollingVariant ==
    (last.op = "wait" /\ last.ret = 1) =>
        /\ state_ \in Terminal
        /\ (state_ = completed => read_size_ = ReadSizeAfterWait /\ read_size_ = file_size_)

\* after an engine failure: the status is an error once do_read() has returned,
\* the buffer is kept, and no read faults or waits on an event that is not set
FailureLeavesSessionUsable ==
    /\ (hist.failed /\ tpc = "done" => state_ \in ErrorCodes)
    /\ (state_ = error_unknown =>
            /\ buf_ # 0 /\ buf_ \notin released
            /\ read_size_ <= file_size_
            /\ ~ReadFaulted
            /\ (cpc = "blocked" => events_[event_pos_ + 1])
            /\ (rd.ret >= 0 => rd.ret <= rd.n /\ rd.p + rd.ret <= read_size_))

\* C15: after an engine failure mid-transfer the session ends in an error
\* status, stays usable, and every byte below read_size is a byte of the file.
C15_FailureKeepsTransferredBytes ==
    /\ FailureLeavesSessionUsable
    /\ (state_ = error_unknown =>
            \A i \in 1 .. Len(mem) : i <= read_size_ => mem[i] = FileByte(i - 1))

OpenFailsWith ==
    IF ~g_ds_factory THEN error_dll_not_found
    ELSE IF last.arg = NoPath THEN error_file_open_failed
    ELSE idle
FailedOpenState ==
    /\ state_ = OpenFailsWith
    /\ ~IsOpen /\ last.failbit
    /\ read_size_ = 0
    /\ tpc = "none" /\ ntasks = 0 /\ future_ = "none" /\ queue = << >>

\* C16 as stated: open() returns false exactly when there is no engine session
\* or the size query fails, then with the matching error status, is_open()
\* false, failbit set, read_size 0 and no background transfer; otherwise it
\* returns true with failbit cleared and is_open() true.
C16_OpenFailsExactlyWithoutEngineOrSize ==
    last.op = "open" =>
        /\ (last.ret = 0 <=> OpenFailsWith # idle)
        /\ (last.ret = 0 => FailedOpenState)
        /\ (last.ret = 1 => ~last.failbit /\ IsOpen)

\* C16 amended: as above, except that after a true return is_open() is true
\* only until the background transfer fails: is_open() is false once do_read()
\* has set an error status.
C16_OpenResultMatchesState ==
    last.op = "open" =>
        /\ (last.ret = 0 <=> OpenFailsWith # idle)
        /\ (last.ret = 0 => FailedOpenState)
        /\ (last.ret = 1 =>
                /\ ~last.failbit
                /\ (IsOpen \/ (hist.failed /\ state_ \in {error_file_open_failed, error_unknown}))
                /\ (~hist.failed => IsOpen))
C16_Witness ==
    /\ last.op = "open" /\ last.ret = 0
    /\ g_ds_factory /\ last.arg = NoPath
    /\ state_ = error_file_open_failed /\ last.failbit

\* ---- C17 ----------------------------------------------------------------
\* a step of the session that is neither open() nor the reset of close()
SameSession == nsess' = nsess /\ ~(cop \in {"close", "destroy"} /\ cop' # cop)
Forward(a, b) ==
    /\ a \in {idle, launched, reading} /\ b \in {launched, reading, completed}
    /\ a < b

\* C17: within one session the status only moves forward along
\* idle -> launched -> reading -> completed or from a non-terminal status into
\* an error status, and a completed or error status never changes again until
\* close() or the next open() of the instance.
C17_StatusOnlyMovesForward ==
    [][ (state_' # state_ /\ SameSession) =>
            /\ state_ \notin Terminal
            /\ (Forward(state_, state_') \/ state_' \in ErrorCodes) ]_vars
\* the background task has ended with completed and the consumer went on
C17_Witness ==
    /\ state_ = completed /\ tpc = "done" /\ nsess = 1
    /\ last.op = "wait" /\ last.ret = 1
C17_WitnessError ==
    /\ state_ = error_unknown /\ tpc = "done" /\ hist.failed /\ last.op = "wait"


\* ---- C18 ----------------------------------------------------------------
\* the queue q holds n requests, each followed by its signal
Alternates(q, n) ==
    /\ Len(q) = 2 * n
    /\ \A i \in 1 .. n : q[2 * i - 1].kind = "req" /\ q[2 * i].kind = "sig"
\* request i reads [(i-1)*C, min(i*C, L)) into the same range of buffer b
ClosedForm(q, n, L, b) ==
    \A i \in 1 .. n :
        /\ q[2 * i - 1].off = (i - 1) * C
        /\ q[2 * i - 1].off + q[2 * i - 1].len = Min(i * C, L)
        /\ q[2 * i - 1].dest = b
        /\ q[2 * i].val = q[2 * i - 1].off + q[2 * i - 1].len
\* ascending, pairwise disjoint, contiguous, at most C long, covering [0, L)
Partition(q, n, L) ==
    /\ n >= 1 /\ q[1].off = 0
    /\ \A i \in 1 .. n : q[2 * i - 1].len \in 1 .. C
    /\ \A i \in 1 .. n - 1 : q[2 * i + 1].off = q[2 * i - 1].off + q[2 * i - 1].len
    /\ q[2 * n - 1].off + q[2 * n - 1].len = L
    /\ \A i, j \in 1 .. n :
           i < j => q[2 * i - 1].off + q[2 * i - 1].len <= q[2 * j - 1].off

\* C18: for a file of length L > 0 and chunk size C > 0 the session submits
\* exactly ceil(L/C) requests in ascending offset order as one batch into an
\* empty queue; request i reads file range [i*C, min((i+1)*C, L)) (i from 0)
\* into the same range of the buffer, the ranges are pairwise disjoint,
\* contiguous, at most C long and cover exactly [0, L), and each request is
\* followed by a completion signal carrying its end offset.
C18_BatchPartitionsFile ==
    [][ (tpc = "submit" /\ tpc' = "setreading") =>
            /\ file_size_ > 0 /\ C > 0 /\ buf_ # 0
            /\ queue = << >>
            /\ Alternates(queue', CeilDiv(file_size_, C))
            /\ ClosedForm(queue', CeilDiv(file_size_, C), file_size_, buf_)
            /\ Partition(queue', CeilDiv(file_size_, C), file_size_)
            /\ Len(events_) = CeilDiv(file_size_, C) ]_vars
\* a 3-byte file with 2-byte chunks: the batch of two requests was submitted
C18_Witness ==
    /\ tpc = "setreading" /\ file_size_ = 3 /\ C = 2
    /\ Len(queue) = 4
    /\ queue[1].len = 2 /\ queue[3].off = 2 /\ queue[3].len = 1 /\ queue[4].val = 3


\* ---- C19 ----------------------------------------------------------------
\* the session of an empty file
EmptySession == nsess > 0 /\ state_ = completed /\ file_size_ = 0
EmptySessionBehaves ==
    /\ tpc = "none" /\ ntasks = 0 /\ future_ = "none" /\ queue = << >>
    /\ read_size_ = 0
    /\ NextWnbFalse /\ wnb.ret \in {"none", "false"}
    /\ cpc # "blocked"
    /\ ~ReadFaulted
    /\ rd.ret \in {-1, 0} /\ dst = << >>

\* C19: opening an empty file for chunked read: open() returns true, state()
\* is completed on return, no background transfer is started, read_size() is
\* 0, and wait_next_block() returns false and read() returns 0 bytes, both
\* without blocking.
C19_EmptyFileOpen ==
    /\ (last.op = "open" /\ last.arg = 0 /\ g_ds_factory) =>
            (last.ret = 1 /\ ~last.failbit /\ EmptySession)
    /\ EmptySession => EmptySessionBehaves
\* the same statement for an instance whose get area was never set
C19_NeverOpenedBefore ==
    /\ (last.op = "open" /\ last.arg = 0 /\ g_ds_factory) =>
            (last.ret = 1 /\ ~last.failbit /\ EmptySession)
    /\ (EmptySession /\ gptr = 0) => EmptySessionBehaves
\* a read of one byte from the empty file's session has returned
C19_ReadReturned ==
    /\ EmptySession /\ gptr = 0 /\ cop = "none" /\ rd.n = 1 /\ rd.ret = 0


\* ---- C20 ----------------------------------------------------------------
WholeSession == g_d3d12_device /\ g_ds_factory /\ g_ds_queue
NullCallMade == cop \in NullCall \/ tpc \in NullCall

\* C20: a background transfer is launched only when device, factory and queue
\* of the engine session all exist: whichever subset of them set_device()
\* supplied, no call goes through a missing one, and without the whole
\* session open() fails with the engine-unavailable status.
C20_LaunchOnlyWithWholeSession ==
    /\ ~NullCallMade
    /\ (ntasks > 0 => WholeSession)
    /\ (last.op = "open" =>
            ((last.ret = 0 /\ state_ = error_dll_not_found) <=> ~WholeSession))
\* what open() does check: the factory alone
C20_LaunchOnlyWithFactory ==
    /\ (ntasks > 0 => g_ds_factory)
    /\ (last.op = "open" =>
            ((last.ret = 0 /\ state_ = error_dll_not_found) <=> ~g_ds_factory))
    /\ (tpc \in NullCall => ~(g_d3d12_device /\ g_ds_queue))
    /\ (cop \in NullCall => g_d3d12_device /\ ~g_ds_factory /\ ~g_ds_queue)


\* ---- C21 ----------------------------------------------------------------
\* the caller holds the buffer of the current session
ExtractedSession == buf_ = 0 /\ mem # << >> /\ extracted # {}
\* requests the engine has yet to execute, or do_read() has yet to enqueue
WritePending == PendingRequests # {} \/ tpc \in {"openfile", "submit"}

\* C21: extract() hands the buffer to the caller and invalidates the stream:
\* afterwards data() is null and read() returns 0 bytes (it does not read the
\* extracted buffer), and no engine write into the buffer is pending when
\* ownership is handed over, also when the session is in flight.
C21_ExtractInvalidatesStream ==
    /\ last.op = "extract" => (buf_ = 0 /\ ~WritePending)
    /\ ExtractedSession =>
           /\ ~ReadFaulted
           /\ rd.ret \in {-1, 0} /\ dst = << >>
\* extract() leaves data() null; after wait() returned true nothing is pending
C21_DataNullAndDrainedAfterWait ==
    /\ last.op = "extract" => buf_ = 0
    /\ (last.op = "extract" /\ state_ = completed) => ~WritePending
\* extract() in flight: a queued request still targets the caller's buffer
C21_PendingAtHandOver ==
    /\ last.op = "extract" /\ last.arg # 0
    /\ \E i \in PendingRequests : queue[i].dest = last.arg
\* read() after extract() returned bytes of the extracted buffer
C21_ReadFromExtracted ==
    /\ ExtractedSession /\ cop = "none"
    /\ rd.ret > 0 /\ Len(dst) = rd.ret
    /\ \A k \in 1 .. Len(dst) : dst[k] = FileByte(rd.p + k - 1 - Base(MemBuf))


\* ======================= the mapped stream ================================
\* src/unnamed/part_001 (mmap_stream.cpp): one MMapStream instance at a time
\* over one file.  An instance is constructed, opened once, written or read,
\* and closed or destroyed; a second instance may then read the same file.
\* Pointers are addresses: a mapped view starts at MapAddr, null is 0, and a
\* view of a file is the file's bytes (writes through the view reach the file).
MapAddr == 1000
dsV == << globals, extracted, instanceV, cop, last, peer >>

Max(a, b) == IF a > b THEN a ELSE b
\* the counts and offsets the calls are tried with
WriteSizes == {1, DefaultReserve, DefaultReserve + 1}
SeekOffsets == {0, 1, DefaultReserve + 1, 2 * DefaultReserve + 1}
ReadSizes == {1, Len(disk.bytes), Len(disk.bytes) + 1} \ {0}
Zeros(n) == [i \in 1 .. n |-> 0]
\* the k-th byte of the j-th call's source buffer
Data(j, k) == 10 * j + k

\* static size_t ExpandFileSize(size_t base, size_t expand): the while loop
RECURSIVE ExpandLoop(_, _)
ExpandLoop(size, required) ==
    IF size < required
    THEN ExpandLoop(IF size < GiB THEN size * 2 ELSE size + GiB, required)
    ELSE size
ExpandFileSizeExact(base, expand) == base + expand
ExpandFileSize(base, expand) == ExpandLoop(base, base + expand)
\* with base = 0 the loop doubles 0 for ever
ExpandDiverges(base, expand) == base = 0 /\ expand > 0

\* MemoryMappedFile::is_open(): pimpl_ && pimpl_->file_ ; a ScopedHandle that
\* holds INVALID_HANDLE_VALUE is not null
MapIsOpen(m) == m.file_ # "null"

\* MemoryMappedFile::PImpl::unmap()
Unmap(m) ==
    IF m.mapping_ THEN [m EXCEPT !.data_ = 0, !.size_ = 0, !.mapping_ = FALSE] ELSE m

\* MemoryMappedFile::map(capacity): CreateFileMapping and MapViewOfFile succeed or not
Map(m, capacity, mappingOk, viewOk) ==
    IF ~MapIsOpen(m) THEN m
    ELSE IF mappingOk
         THEN [Unmap(m) EXCEPT !.mapping_ = TRUE,
                               !.data_ = IF viewOk THEN MapAddr ELSE 0,
                               !.size_ = capacity]
         ELSE Unmap(m)
\* CreateFileMapping(PAGE_READWRITE, capacity) extends a shorter file to capacity
DiskAfterMapReplaced(d, m, capacity, mappingOk) ==
    IF m.file_ = "valid" /\ mappingOk THEN [d EXCEPT !.bytes = Zeros(capacity)] ELSE d
DiskAfterMap(d, m, capacity, mappingOk) ==
    IF m.file_ = "valid" /\ mappingOk /\ capacity > Len(d.bytes)
    THEN [d EXCEPT !.bytes = d.bytes \o Zeros(capacity - Len(d.bytes))]
    ELSE d

\* MMapStreamBuf::reserve(size): remap keeping the cursor's offset
Reserve(m, pptr, d, size, mappingOk, viewOk) ==
    IF size > m.size_
    THEN LET pos == pptr - m.data_
             m2 == Map(m, size, mappingOk, viewOk)
         IN [m |-> m2, pptr |-> m2.data_ + pos,
             d |-> DiskAfterMap(d, m, size, mappingOk), maps |-> 1]
    ELSE [m |-> m, pptr |-> pptr, d |-> d, maps |-> 0]

\* handle_closer on INVALID_HANDLE_VALUE: the assert aborts a build that keeps
\* assertions, a build without them calls CloseHandle to no effect
ResetFile(m, then) ==
    IF m.file_ = "invalid" THEN {"aborted", then} ELSE {then}

\* SetFilePointer + SetEndOfFile on a valid handle: the file gets this length
Truncated(d, m, filesize) ==
    IF m.file_ # "valid" THEN d
    ELSE [d EXCEPT !.bytes =
             IF filesize <= Len(d.bytes) THEN SubSeq(d.bytes, 1, filesize)
             ELSE d.bytes \o Zeros(filesize - Len(d.bytes))]

\* memcpy through [addr, addr + n) stays inside the mapped view
InView(m, addr, n) ==
    n = 0 \/ (m.data_ # 0 /\ addr >= m.data_ /\ addr + n <= m.data_ + m.size_)

\* MMapStream::open(path, std::ios::out) or open(path, std::ios::out | async_unmap)
\* on a fresh instance
MOpenWriteMode(createOk, mappingOk, viewOk, async) ==
    /\ strm.pc = "new"
    /\ mlog.inst = 0
    /\ LET m0 == [ClosedMap EXCEPT !.mode_ = "out", !.async_unmap = async,
                                   !.file_ = IF createOk THEN "valid" ELSE "invalid"]
           d0 == IF createOk THEN [exists |-> TRUE, bytes |-> << >>] ELSE disk
           r == Reserve(m0, strm.pptr, d0, DefaultReserve, mappingOk, viewOk)
       IN /\ mmap_' = r.m
          /\ disk' = r.d
          /\ strm' = [strm EXCEPT !.pptr = r.pptr, !.failbit = FALSE, !.pc = "open"]
          /\ mlast' = [NoMLast EXCEPT !.op = "open", !.mode = "out", !.ret = 1,
                                      !.arg = IF createOk THEN 1 ELSE 0,
                                      !.maps = r.maps]
          /\ mlog' = [NoMLog EXCEPT !.inst = mlog.inst,
                                    !.created = IF createOk THEN "file" ELSE "nofile"]
    /\ UNCHANGED << dsV, cb, do_close >>
MOpenWrite(createOk, mappingOk, viewOk) == MOpenWriteMode(createOk, mappingOk, viewOk, FALSE)

\* MMapStream::open(path, std::ios::in) on a fresh instance
MOpenRead(createOk, mappingOk, viewOk) ==
    /\ strm.pc = "new"
    /\ createOk => disk.exists
    /\ LET mapped == createOk /\ mappingOk /\ Len(disk.bytes) > 0
           m0 == [ClosedMap EXCEPT !.mode_ = "in",
                                   !.file_ = IF createOk THEN "valid" ELSE "invalid"]
       IN IF mapped /\ viewOk
          THEN /\ mmap_' = [m0 EXCEPT !.mapping_ = TRUE, !.data_ = MapAddr,
                                      !.size_ = Len(disk.bytes)]
               /\ strm' = [strm EXCEPT !.gptr = MapAddr, !.failbit = FALSE, !.pc = "open"]
               /\ mlast' = [NoMLast EXCEPT !.op = "open", !.mode = "in",
                                           !.arg = 1, !.ret = 1]
          ELSE \* close(); return false; setstate(failbit)
               /\ mmap_' = ClosedMap
               /\ \E pc \in ResetFile(m0, "failed") :
                     strm' = [strm EXCEPT !.failbit = TRUE, !.pc = pc]
               /\ mlast' = [NoMLast EXCEPT !.op = "open", !.mode = "in",
                                           !.arg = IF createOk THEN 1 ELSE 0,
                                           !.ret = 0]
    /\ UNCHANGED << disk, mlog, dsV, cb, do_close >>


\* std::ostream::write(ptr, n) -> MMapStreamBuf::xsputn(ptr, n); the source
\* buffer of the j-th call holds Data(j, 1..n)
MWrite(n, mappingOk, viewOk) ==
    /\ strm.pc = "open" /\ mmap_.mode_ = "out" /\ ~strm.failbit
    /\ mlog.nops < MaxOps
    /\ LET j == mlog.nops + 1
           tail == mmap_.data_ + mmap_.size_
           grow == strm.pptr + n > tail
       IN IF grow /\ ExpandDiverges(mmap_.size_, n)
          THEN /\ strm' = [strm EXCEPT !.pc = "hung"]
               /\ UNCHANGED << mmap_, disk, mlog >>
               /\ mlast' = [NoMLast EXCEPT !.op = "write", !.arg = n, !.ret = -1]
          ELSE LET r == IF grow
                        THEN Reserve(mmap_, strm.pptr, disk,
                                     ExpandFileSize(mmap_.size_, n), mappingOk, viewOk)
                        ELSE [m |-> mmap_, pptr |-> strm.pptr, d |-> disk, maps |-> 0]
                   current == r.pptr
                   pos == current - r.m.data_
                   rec == [NoMLast EXCEPT !.op = "write", !.arg = n,
                                          !.p0 = strm.pptr - mmap_.data_,
                                          !.cap0 = mmap_.size_, !.pmax0 = strm.pmax_,
                                          !.maps = r.maps]
               IN /\ mmap_' = r.m
                  /\ IF InView(r.m, current, n)
                     THEN /\ disk' = IF r.m.file_ = "valid"
                                     THEN [r.d EXCEPT !.bytes =
                                             [i \in 1 .. Len(r.d.bytes) |->
                                                IF i > pos /\ i <= pos + n
                                                THEN Data(j, i - pos) ELSE r.d.bytes[i]]]
                                     ELSE r.d
                          /\ strm' = [strm EXCEPT !.pptr = current + n]
                          /\ mlast' = [rec EXCEPT !.ret = n]
                          /\ mlog' = [mlog EXCEPT
                                !.nops = j,
                                !.hw = Max(@, pos + n),
                                !.img = [i \in 1 .. Max(Len(mlog.img), pos + n) |->
                                           IF i > pos /\ i <= pos + n THEN Data(j, i - pos)
                                           ELSE IF i <= Len(mlog.img) THEN mlog.img[i]
                                           ELSE 0]]
                     ELSE \* memcpy to addresses outside the view: the access
                          \* faults, or it goes somewhere; not followed further
                          /\ disk' = r.d
                          /\ \E pc \in {"crashed", "undefined"} :
                                strm' = [strm EXCEPT !.pptr = current, !.pc = pc]
                          /\ mlast' = [rec EXCEPT !.ret = -1]
                          /\ mlog' = [mlog EXCEPT !.nops = j]
    /\ UNCHANGED << dsV, cb, do_close >>

\* high-water mark after a write-mode seek
PmaxAfterSeekCursorOnly(pmax, current, head) == current - head
PmaxAfterSeek(pmax, current, head) == Max(pmax, current - head)

\* seekp(off) / seekg(off) -> MMapStreamBuf::seekoff(off, std::ios::beg)
MSeek(off) ==
    /\ strm.pc = "open" /\ ~strm.failbit
    /\ mlog.nops < MaxOps
    /\ LET head == mmap_.data_
           rec == [NoMLast EXCEPT !.op = "seek", !.arg = off,
                                  !.cap0 = mmap_.size_, !.pmax0 = strm.pmax_,
                                  !.ret = off]
       IN IF mmap_.mode_ = "out"
          THEN /\ strm' = [strm EXCEPT
                              !.pmax_ = PmaxAfterSeek(strm.pmax_, strm.pptr, head),
                              !.pptr = head + off]
               /\ mlast' = [rec EXCEPT !.p0 = strm.pptr - head]
          ELSE /\ strm' = [strm EXCEPT !.gptr = head + off]
               /\ mlast' = [rec EXCEPT !.p0 = strm.gptr - head]
    /\ mlog' = [mlog EXCEPT !.nops = @ + 1,
                            !.seeks = IF mmap_.mode_ = "out" THEN @ + 1 ELSE @]
    /\ UNCHANGED << mmap_, disk, dsV, cb, do_close >>

\* std::istream::read(ptr, n) -> MMapStreamBuf::xsgetn(ptr, n)
MRead(n) ==
    /\ strm.pc = "open" /\ mmap_.mode_ = "in" /\ ~strm.failbit
    /\ mlog.nops < MaxOps
    /\ LET head == mmap_.data_
           tail == head + mmap_.size_
           current == strm.gptr
           \* size_t(tail - current): a negative difference wraps to a huge value
           readSize == IF tail - current < 0 THEN n ELSE Min(n, tail - current)
           rec == [NoMLast EXCEPT !.op = "read", !.arg = n, !.p0 = current - head,
                                  !.cap0 = mmap_.size_]
       IN IF InView(mmap_, current, readSize)
          THEN /\ strm' = [strm EXCEPT !.gptr = current + readSize,
                                       !.failbit = readSize < n]
               /\ mlast' = [rec EXCEPT !.ret = readSize,
                               !.out = [k \in 1 .. readSize |->
                                           disk.bytes[current - head + k]]]
          ELSE /\ \E pc \in {"crashed", "undefined"} : strm' = [strm EXCEPT !.pc = pc]
               /\ mlast' = [rec EXCEPT !.ret = -1]
    /\ mlog' = [mlog EXCEPT !.nops = @ + 1]
    /\ UNCHANGED << mmap_, disk, dsV, cb, do_close >>

\* MMapStream::close() -> MMapStreamBuf::close(): mmap_.close(); pmax_ = 0
MClose ==
    /\ strm.pc = "open"
    /\ mmap_' = ClosedMap
    /\ IF MapIsOpen(mmap_) /\ mmap_.async_unmap
       THEN \* concurrency::create_task(std::move(do_close))
            /\ do_close' = [pending |-> TRUE, m |-> mmap_, filesize |-> 0, truncate |-> FALSE]
            /\ strm' = [strm EXCEPT !.pmax_ = 0, !.pc = "closed"]
       ELSE /\ \E pc \in ResetFile(mmap_, "closed") :
                  strm' = [strm EXCEPT !.pmax_ = 0, !.pc = pc]
            /\ UNCHANGED do_close
    /\ mlast' = [NoMLast EXCEPT !.op = "close", !.cap0 = mmap_.size_,
                                !.pmax0 = strm.pmax_, !.p0 = strm.pptr - mmap_.data_,
                                !.ret = IF mmap_.mode_ = "out" THEN 0 ELSE -1]
    /\ mlog' = [mlog EXCEPT !.ended = IF mmap_.mode_ = "out" THEN "close" ELSE @]
    /\ UNCHANGED << disk, dsV, cb >>

\* ~MMapStream(): ~MMapStreamBuf() truncates an open write-mode file to
\* max(pmax_, pptr - data()); then ~MemoryMappedFile() closes what is still open.
\* With async_unmap either of them hands its do_close to create_task() and returns.
MDestroy ==
    /\ strm.pc \in {"new", "open", "failed", "closed"}
    /\ LET out == MapIsOpen(mmap_) /\ mmap_.mode_ = "out"
           filesize == Max(strm.pmax_, strm.pptr - mmap_.data_)
           async == MapIsOpen(mmap_) /\ mmap_.async_unmap
       IN /\ disk' = IF out /\ ~async THEN Truncated(disk, mmap_, filesize) ELSE disk
          /\ do_close' = IF async
                         THEN [pending |-> TRUE, m |-> mmap_,
                               filesize |-> IF out THEN filesize ELSE 0, truncate |-> out]
                         ELSE do_close
          /\ \E pc \in (IF async THEN {"destroyed"} ELSE ResetFile(mmap_, "destroyed")) :
                strm' = [strm EXCEPT !.pc = pc]
          /\ mlast' = [NoMLast EXCEPT !.op = "destroy", !.cap0 = mmap_.size_,
                                      !.pmax0 = strm.pmax_,
                                      !.p0 = strm.pptr - mmap_.data_,
                                      !.ret = IF out THEN filesize ELSE -1]
          /\ mlog' = [mlog EXCEPT !.ended = IF out THEN "destroy" ELSE @]
    /\ mmap_' = ClosedMap
    /\ UNCHANGED << dsV, cb >>

\* the task runs do_close: unmap(), for close_with_truncation SetFilePointer
\* and SetEndOfFile, file_.reset().  SetEndOfFile fails on a file of which a
\* section is mapped (here: by a later read-mode open); the result is not tested.
DoClose ==
    /\ do_close.pending
    /\ disk' = IF do_close.truncate /\ ~mmap_.mapping_
               THEN Truncated(disk, do_close.m, do_close.filesize) ELSE disk
    /\ \E pc \in ResetFile(do_close.m, strm.pc) : strm' = [strm EXCEPT !.pc = pc]
    /\ do_close' = [do_close EXCEPT !.pending = FALSE, !.m = ClosedMap]
    /\ UNCHANGED << mmap_, mlast, mlog, dsV, cb >>

\* the next MMapStream object is constructed (the file stays what it is)
MNew ==
    /\ strm.pc = "destroyed"
    /\ mlog.inst < 1
    /\ strm' = NewStream
    /\ mmap_' = ClosedMap
    /\ mlast' = NoMLast
    /\ mlog' = [mlog EXCEPT !.inst = @ + 1]
    /\ UNCHANGED << disk, dsV, cb, do_close >>

\* process start for the mapped stream: one fresh instance, no file yet or a
\* file left by an earlier run
InitMMap ==
    /\ g_d3d12_device = FALSE /\ g_ds_factory = FALSE /\ g_ds_queue = FALSE
    /\ s_resolve_imports = FALSE
    /\ InitInstance /\ g_ds_staging_buffer_size = 1
    /\ mmap_ = ClosedMap /\ strm = NewStream
    /\ disk \in {NoFile, [exists |-> TRUE, bytes |-> << 7, 8, 9 >>]}
    /\ mlast = NoMLast /\ mlog = NoMLog /\ cb = NoCb /\ peer = NoPeer
    /\ do_close = NoTask

NextMMap ==
    \/ \E createOk, mappingOk, viewOk \in BOOLEAN : MOpenWrite(createOk, mappingOk, viewOk)
    \/ \E createOk, mappingOk, viewOk \in BOOLEAN : MOpenRead(createOk, mappingOk, viewOk)
    \/ \E n \in WriteSizes : \E mappingOk, viewOk \in BOOLEAN : MWrite(n, mappingOk, viewOk)
    \/ \E off \in SeekOffsets : MSeek(off)
    \/ \E n \in ReadSizes : MRead(n)
    \/ MClose
    \/ MDestroy
    \/ MNew

SpecMMap == InitMMap /\ [][NextMMap]_vars


\* ---- C22 ----------------------------------------------------------------
Faulted == strm.pc \in {"crashed", "undefined", "hung", "aborted"}
\* a write session on a created file that only wrote (no seek)
WritesOnly == mlog.created = "file" /\ mlog.seeks = 0
WrittenBytes == Len(mlog.img)
Cursor == strm.pptr - mmap_.data_

\* C22: write calls totalling W bytes on a write-mode mapped stream that is then
\* destroyed: the file holds exactly the W written bytes in order, a read-mode
\* open gives size() = W and reading W bytes returns them; every growth keeps
\* the bytes written before it and the cursor offset.
C22_WriteThenReadBack ==
    WritesOnly =>
        /\ (strm.pc = "open" /\ mmap_.mode_ = "out" /\ mmap_.data_ # 0) =>
               /\ Cursor = WrittenBytes
               /\ Len(disk.bytes) >= WrittenBytes
               /\ SubSeq(disk.bytes, 1, WrittenBytes) = mlog.img
        /\ mlog.ended = "destroy" =>
               /\ disk.bytes = mlog.img
               /\ (strm.pc = "open" /\ mmap_.mode_ = "in") => mmap_.size_ = WrittenBytes
               /\ (mlast.op = "read" /\ mlast.p0 = 0 /\ mlast.arg >= WrittenBytes
                     /\ ~Faulted) =>
                      (mlast.ret = WrittenBytes /\ mlast.out = mlog.img)
\* 4 bytes written in two calls across a growth, read back by a second instance
C22_Witness ==
    /\ WritesOnly /\ mlog.ended = "destroy"
    /\ WrittenBytes > DefaultReserve + 1
    /\ mlast.op = "read" /\ mlast.ret = WrittenBytes /\ mlast.out = mlog.img
    /\ mlog.img[1] = Data(1, 1) /\ mlog.img[WrittenBytes] = Data(2, 1)

\* ---- C23 ----------------------------------------------------------------
\* C23: ending a write-mode mapped stream, by an explicit close() or by
\* destruction, truncates the backing file to max(high_water_mark, cursor);
\* the on-disk size is never left at the mapped capacity.
EndedWriteMode == mlast.op \in {"close", "destroy"} /\ mlast.ret >= 0
C23_EndTruncatesFile ==
    (mlog.created = "file" /\ EndedWriteMode) =>
        Len(disk.bytes) = Max(mlast.pmax0, mlast.p0)
\* the same statement for destruction of a stream that is still open
C23_DestructionTruncatesFile ==
    (mlog.created = "file" /\ mlog.ended = "destroy") =>
        /\ Len(disk.bytes) >= mlog.hw
        /\ (mlast.op = "destroy" /\ EndedWriteMode) =>
               Len(disk.bytes) = Max(mlast.pmax0, mlast.p0)
\* close() left the file at the mapped capacity, above everything written
C23_ClosedAtCapacity ==
    /\ mlog.created = "file" /\ mlast.op = "close" /\ EndedWriteMode
    /\ mlast.cap0 > 0
    /\ Len(disk.bytes) = mlast.cap0 /\ Len(disk.bytes) > Max(mlast.pmax0, mlast.p0)

\* ---- C24 ----------------------------------------------------------------
\* the growth sequence of a capacity: doubling below GiB, plus GiB from there on
GrowthStep(c) == IF c < GiB THEN 2 * c ELSE c + GiB
RECURSIVE FirstAtLeast(_, _)
FirstAtLeast(c, r) == IF c >= r THEN c ELSE FirstAtLeast(GrowthStep(c), r)
\* a write that returned, started with the cursor inside the mapping
WriteReturned ==
    /\ mlast.op = "write" /\ mlast.ret = mlast.arg
    /\ mlast.cap0 > 0 /\ mlast.p0 <= mlast.cap0

\* C24 (as stated): a write of n bytes at cursor p that exceeds the capacity
\* grows it in one growth event to the first value of the growth sequence of
\* the current capacity that is >= p + n.
C24_GrowsToFirstFit ==
    WriteReturned =>
        IF mlast.p0 + mlast.arg > mlast.cap0
        THEN mlast.maps = 1 /\ mmap_.size_ = FirstAtLeast(mlast.cap0, mlast.p0 + mlast.arg)
        ELSE mlast.maps = 0 /\ mmap_.size_ = mlast.cap0
\* C24 (amended): such a write grows the capacity in one growth event to the
\* first value of the growth sequence that is >= capacity + n; a write that
\* fits does not grow; default_reserve_size + 1 bytes written to a fresh stream
\* cause exactly one growth event.
C24_GrowsPastCapacityPlusCount ==
    WriteReturned =>
        /\ IF mlast.p0 + mlast.arg > mlast.cap0
           THEN /\ mlast.maps = 1
                /\ mmap_.size_ = FirstAtLeast(mlast.cap0, mlast.cap0 + mlast.arg)
                /\ mmap_.size_ >= mlast.p0 + mlast.arg
           ELSE mlast.maps = 0 /\ mmap_.size_ = mlast.cap0
        /\ (mlast.p0 = 0 /\ mlast.cap0 = DefaultReserve
              /\ mlast.arg = DefaultReserve + 1) => mlast.maps = 1
\* default_reserve_size + 1 bytes written to a fresh stream: one growth event
C24_Witness ==
    /\ WriteReturned /\ mlog.nops = 1
    /\ mlast.p0 = 0 /\ mlast.cap0 = DefaultReserve /\ mlast.arg = DefaultReserve + 1
    /\ mlast.maps = 1 /\ mmap_.size_ > 2 * DefaultReserve

\* ---- C25 ----------------------------------------------------------------
\* C25: in write mode a seek beyond the mapped capacity grows the capacity
\* before it returns: after every seek the cursor is <= the capacity, and a
\* following write lands inside the mapping.
C25_SeekGrowsCapacity ==
    (strm.pc \in {"open", "crashed", "undefined"} /\ mmap_.mode_ = "out"
       /\ mlog.created = "file" /\ mmap_.data_ # 0) =>
        /\ mlast.op = "seek" => Cursor <= mmap_.size_
        /\ mlast.op = "write" => ~Faulted
\* seeks that stay inside the capacity: the following write lands in the mapping
C25_SeekInsideCapacity ==
    (strm.pc \in {"open", "crashed", "undefined"} /\ mmap_.mode_ = "out"
       /\ mlog.created = "file" /\ mmap_.data_ # 0 /\ mlast.op = "write" /\ mlast.p0 <= mlast.cap0) => ~Faulted
\* a write after a seek beyond the capacity went outside the mapping
C25_WriteOutsideMapping ==
    /\ mlog.created = "file"
    /\ mlast.op = "write" /\ mlast.p0 > mlast.cap0 /\ mlast.maps = 1
    /\ mmap_.data_ # 0 /\ Cursor + mlast.arg > mmap_.size_
    /\ strm.pc = "undefined"

\* ---- C26 ----------------------------------------------------------------
WriteModeOpen == strm.pc = "open" /\ mmap_.mode_ = "out"
\* a step that is a write-mode seek: it sets the mark from the cursor before it
SeekSetsMark ==
    (WriteModeOpen /\ mlast'.op = "seek" /\ mlog'.seeks = mlog.seeks + 1) =>
        strm'.pmax_ = Max(strm.pmax_, Cursor)
\* while the stream stays open in write mode the mark does not decrease
MarkKept ==
    (WriteModeOpen /\ strm'.pc = "open" /\ mmap_'.mode_ = "out") =>
        strm'.pmax_ >= strm.pmax_
\* after destruction the file is at least as long as every offset written to
LengthCoversWrites ==
    (mlog.created = "file" /\ mlog.ended = "destroy") => Len(disk.bytes) >= mlog.hw

\* C26: in write mode every seek sets high_water_mark to
\* max(high_water_mark, cursor before the seek), so it never decreases, and for
\* any interleaving of writes and seeks the file length after destruction is at
\* least every offset the cursor reached by writing, also after a backward seek.
C26_HighWaterMark == []LengthCoversWrites /\ [][SeekSetsMark /\ MarkKept]_vars
\* destroyed after a write and a backward seek: the file keeps the written length
C26_Witness ==
    /\ mlog.created = "file" /\ mlast.op = "destroy" /\ mlast.ret >= 0
    /\ mlog.seeks >= 1 /\ mlog.hw > 0
    /\ mlast.p0 < mlog.hw /\ mlast.pmax0 = mlog.hw
    /\ Len(disk.bytes) = mlog.hw

\* ---- C27 ----------------------------------------------------------------
ReadModeOpen == strm.pc \in {"open", "crashed", "undefined"} /\ mmap_.mode_ = "in"
ReadCursor == strm.gptr - mmap_.data_

\* C27: in read mode size() is the file length; for any sequence of seek and
\* read calls the cursor stays within [0, size()], and read(n) returns
\* min(n, size() - cursor) bytes taken from offsets in [0, size()); a read at
\* the end returns 0 bytes and the stream reports end-of-data.
C27_ReadModeBounded ==
    ReadModeOpen =>
        /\ mmap_.size_ = Len(disk.bytes)
        /\ ReadCursor >= 0 /\ ReadCursor <= mmap_.size_
        /\ mlast.op = "read" =>
               /\ ~Faulted
               /\ mlast.ret = Min(mlast.arg, mlast.cap0 - mlast.p0)
               /\ mlast.out = SubSeq(disk.bytes, mlast.p0 + 1, mlast.p0 + mlast.ret)
               /\ (mlast.p0 = mlast.cap0) => (mlast.ret = 0 /\ strm.failbit)
\* the same for reads that start with the cursor within [0, size()]
C27_ReadInsideFile ==
    (ReadModeOpen /\ mmap_.size_ = Len(disk.bytes)
       /\ mlast.op = "read" /\ mlast.p0 <= mlast.cap0) =>
        /\ ~Faulted
        /\ mlast.ret = Min(mlast.arg, mlast.cap0 - mlast.p0)
        /\ mlast.out = SubSeq(disk.bytes, mlast.p0 + 1, mlast.p0 + mlast.ret)
        /\ ReadCursor = mlast.p0 + mlast.ret
        /\ (mlast.ret < mlast.arg) => strm.failbit
\* a seek left the cursor beyond size()
C27_CursorBeyondSize ==
    /\ ReadModeOpen /\ strm.pc = "open" /\ mlast.op = "seek"
    /\ ReadCursor > mmap_.size_
\* a read after such a seek went outside the view
C27_ReadOutsideView ==
    /\ ReadModeOpen /\ mlast.op = "read" /\ mlast.p0 > mlast.cap0
    /\ Faulted

\* ---- C28 ----------------------------------------------------------------
\* MMapStream::open has returned; mlast.arg = 0: CreateFileA gave no file
OpenReturned == mlast.op = "open" /\ strm.pc \in {"open", "failed"}
StreamIsOpen == MapIsOpen(mmap_)

\* C28: MMapStream::open returns false, leaves is_open() false and sets failbit
\* whenever the file cannot be opened for reading or created for writing; it
\* returns true (failbit cleared) only with a valid file handle and, in read
\* mode, a mapping.
C28_OpenReportsFailure ==
    /\ (mlast.op = "open" /\ mlast.arg = 0) =>
           (strm.pc = "failed" /\ mlast.ret = 0 /\ ~StreamIsOpen /\ strm.failbit)
    /\ (OpenReturned /\ mlast.ret = 1) =>
           /\ mmap_.file_ = "valid" /\ ~strm.failbit
           /\ mlast.mode = "in" => (mmap_.mapping_ /\ mmap_.data_ # 0)
\* what open() does report: a false return leaves the stream closed with
\* failbit set, a true return leaves it open with failbit cleared, and a
\* read-mode open returns true only with a valid handle and a mapped view
C28_ReturnMatchesState ==
    OpenReturned =>
        /\ mlast.ret = 0 => (~StreamIsOpen /\ strm.failbit /\ strm.pc = "failed")
        /\ mlast.ret = 1 => (StreamIsOpen /\ ~strm.failbit /\ strm.pc = "open")
        /\ (mlast.mode = "in" /\ mlast.ret = 1) =>
               (mmap_.file_ = "valid" /\ mmap_.mapping_ /\ mmap_.data_ # 0)
        /\ (mlast.mode = "out" /\ mlast.arg = 1) => mmap_.file_ = "valid"
\* write-mode open returned true although no file was created
C28_OpenedWithoutFile ==
    /\ OpenReturned /\ mlast.mode = "out" /\ mlast.arg = 0 /\ mlast.ret = 1
    /\ StreamIsOpen /\ ~strm.failbit /\ mmap_.file_ = "invalid" /\ ~disk.exists
\* read-mode open of a missing file stopped on the assertion of handle_closer
C28_ReadOpenAborted ==
    mlast.op = "open" /\ mlast.mode = "in" /\ mlast.arg = 0 /\ strm.pc = "aborted"

\* ---- C29 ----------------------------------------------------------------
\* a write on a mapped file had to grow the mapping and map() returned no address
GrowthFailed ==
    /\ mlog.created = "file" /\ mlast.op = "write"
    /\ mlast.cap0 > 0 /\ mlast.p0 <= mlast.cap0
    /\ mlast.maps = 1 /\ mmap_.data_ = 0

\* C29: when growing the mapping fails during a write, the write copies no
\* bytes through an invalid address and the stream is left failed or closed,
\* with no cursor or capacity referring to a mapping that does not exist.
C29_GrowthFailureIsClean ==
    GrowthFailed =>
        /\ strm.pc \notin {"crashed", "undefined"}
        /\ strm.failbit \/ ~StreamIsOpen
        /\ strm.pptr = 0 /\ mmap_.size_ = 0
\* the write copied through null + offset, the cursor still holds that address
C29_WroteThroughNull ==
    /\ GrowthFailed /\ strm.pc \in {"crashed", "undefined"}
    /\ mlast.p0 > 0 /\ strm.pptr = mlast.p0
    /\ StreamIsOpen /\ ~strm.failbit
\* the view failed after the mapping object was made: a capacity without a view
C29_CapacityWithoutView ==
    GrowthFailed /\ mmap_.mapping_ /\ mmap_.size_ > mlast.cap0

\* ---- CreateBuffer ---------------------------------------------------------
\* size_t arithmetic of SizeBits bits
SizeMax == 2 ^ SizeBits - 1
RECURSIVE BitAnd(_, _, _)
BitAnd(a, b, n) ==
    IF n = 0 THEN 0
    ELSE (a % 2) * (b % 2) + 2 * BitAnd(a \div 2, b \div 2, n - 1)
BitNot(a) == SizeMax - a
\* dwPageSize: a power of two
PageSizes == { 2 ^ k : k \in 1 .. MaxPageBits }

\* size = (size + page_size - 1) & ~(page_size - 1)
CreateBufferLength(size, page_size) ==
    BitAnd((size + page_size - 1) % (SizeMax + 1), BitNot(page_size - 1), SizeBits)

\* CreateBuffer(size): the length handed to VirtualAlloc
CreateBuffer ==
    /\ ~cb.done
    /\ cb' = [cb EXCEPT !.len = CreateBufferLength(cb.size, cb.page_size),
                        !.done = TRUE]
    /\ UNCHANGED << dsV, mmap_, strm, disk, mlast, mlog, do_close >>

\* one call of CreateBuffer for every size > 0 of size_t and every page size
InitBuffer ==
    /\ g_d3d12_device = FALSE /\ g_ds_factory = FALSE /\ g_ds_queue = FALSE
    /\ s_resolve_imports = FALSE
    /\ InitInstance
    /\ mmap_ = ClosedMap /\ strm = [NewStream EXCEPT !.pc = "none"]
    /\ disk = NoFile /\ mlast = NoMLast /\ mlog = NoMLog /\ peer = NoPeer
    /\ do_close = NoTask
    /\ \E size \in 1 .. SizeMax, page_size \in PageSizes :
          cb = [size |-> size, page_size |-> page_size, len |-> 0, done |-> FALSE]
NextBuffer == CreateBuffer
SpecBuffer == InitBuffer /\ [][NextBuffer]_vars

\* ---- C30 ----------------------------------------------------------------
\* len is the smallest multiple of the page size that is >= size
SmallestMultiple(len, size, page_size) ==
    len % page_size = 0 /\ len >= size /\ len - size < page_size
\* every request of a session over size bytes has its range inside [0, len)
RequestsInside(len, size, staging) ==
    \A i \in 1 .. EventCount(size, staging) :
        LET r == RequestOf(i, size, staging, 0)
        IN r.off >= 0 /\ r.len > 0 /\ r.off + r.len <= len

\* C30 (as stated): CreateBuffer(size) allocates the smallest multiple of the
\* page size >= size for every size > 0 of size_t; the length is never below
\* size, so every request's destination range lies inside the buffer.
C30_RoundsUpEverySize ==
    cb.done =>
        /\ SmallestMultiple(cb.len, cb.size, cb.page_size)
        /\ RequestsInside(cb.len, cb.size, g_ds_staging_buffer_size)
\* what CreateBuffer computes: for a size with 0 < size <= SIZE_MAX -
\* page_size + 1 the length is the smallest multiple of the page size >= size
\* and every request's destination range lies inside it; for a larger size the
\* sum size + page_size - 1 wraps and the length is 0.
C30_RoundsUpUnlessWrapped ==
    cb.done =>
        IF cb.size <= SizeMax - cb.page_size + 1
        THEN /\ SmallestMultiple(cb.len, cb.size, cb.page_size)
             /\ RequestsInside(cb.len, cb.size, g_ds_staging_buffer_size)
        ELSE cb.len = 0
\* a size that is not a multiple of the page size was rounded up to the next one
C30_Witness ==
    /\ cb.done /\ cb.size % cb.page_size # 0 /\ cb.size > cb.page_size
    /\ cb.len > cb.size /\ cb.len % cb.page_size = 0
    /\ EventCount(cb.size, g_ds_staging_buffer_size) > 1
\* a size in the last page of size_t: the length is 0
C30_WitnessWrapped ==
    cb.done /\ cb.size > SizeMax - cb.page_size + 1 /\ cb.len = 0

\* ======================= seekoff of the polling variant ==================
\* src/src/dstorage_stream.cpp: a first wait_next_block() while the session is
\* active with read_size_ 0, then
\*   while (m.read_size_ < distance) { wait_next_block();
\*                                     if (m.state_.load() == completed) break; }
\*   setg(current, current, tail); return pos_type(current - head);
PollSeekFinish(off) ==
    /\ gptr' = Head_ + off
    /\ egptr' = Head_ + file_size_
    /\ cop' = "none" /\ cpc' = "ready"
    /\ carg' = 0
    /\ last' = [NoLast EXCEPT !.op = "seek", !.arg = off, !.ret = off]

PollSeekCall(off) ==
    /\ cop = "none"
    /\ hist' = [hist EXCEPT !.fresh = FALSE]
    /\ IF state_ >= launched /\ state_ < completed /\ read_size_ = 0
       THEN /\ cop' = "preseek" /\ cpc' = "entry"
            /\ carg' = off
            /\ last' = NoLast
            /\ UNCHANGED getV
       ELSE IF read_size_ < off
       THEN /\ cop' = "seek" /\ cpc' = "entry"
            /\ carg' = off
            /\ last' = NoLast
            /\ UNCHANGED getV
       ELSE PollSeekFinish(off)
    /\ wnb' = NoWnb /\ rd' = NoRd /\ dst' = << >> /\ lp' = NoLp
    /\ UNCHANGED << globals, extracted, otherV, engineV, released, pimplV, tpc, ntasks, nsess, remain >>

\* wait_next_block() returned inside seekoff: the first call, or the loop's
PollSeekResume ==
    /\ cop \in {"preseek", "seek"}
    /\ cpc \in {"rettrue", "retfalse"}
    /\ IF (cop = "seek" /\ state_ = completed) \/ ~(read_size_ < carg)
       THEN PollSeekFinish(carg)
       ELSE /\ cop' = "seek" /\ cpc' = "entry"
            /\ UNCHANGED << carg, getV, last >>
    /\ UNCHANGED << globals, extracted, otherV, engineV, released, pimplV, tpc, ntasks, nsess, remain,
                    dst, histV >>

\* the steps of the three threads of control
PollConsumerStep ==
    \/ PollOpen \/ Close
    \/ PollWnbEntry \/ PollFence \/ PollState \/ WnbReturn
    \/ PollWaitResume \/ PollSeekResume
PollTaskStep ==
    \/ PollDoReadOpenFile \/ PollDoReadResize \/ PollDoReadCreateFence
    \/ PollDoReadSubmit \/ DoReadFinish
EngineStep == EngineRequest \/ EngineSignal

NextPollSeek ==
    \/ \E path \in Paths : OpenCall(path)
    \/ CloseCall
    \/ WnbCall
    \/ PollWaitCall
    \/ \E off \in 0 .. MaxLen + 1 : PollSeekCall(off)
    \/ PollConsumerStep
    \/ PollTaskStep
    \/ EngineStep

\* the engine processes every submitted item, the task and a call in progress
\* keep running
SpecPollSeek ==
    /\ Init /\ [][NextPollSeek]_vars
    /\ WF_vars(EngineStep) /\ WF_vars(PollTaskStep) /\ WF_vars(PollConsumerStep)

\* ---- C31 ----------------------------------------------------------------
BlockingCalls == {"wnb", "read", "seek", "preseek", "wait", "close"}
\* nothing is in flight any more: no task is running and the queue is empty
Quiescent == tpc \in {"none", "done"} /\ queue = << >>

\* C31: provided the engine completes or fails every submitted request, every
\* launched session eventually reaches a terminal status and every blocking
\* call (wait_next_block, read, seek, wait, close) eventually returns; a seek
\* beyond read_size returns once the session is terminal, also after an error
\* status and on a stream that was never opened.
C31_EveryCallReturns ==
    /\ (state_ = launched) ~> (state_ \in Terminal)
    /\ (cop \in BlockingCalls) ~> (cop = "none")
\* the part about sessions: a launched session reaches a terminal status
C31_SessionsEnd == (state_ = launched) ~> (state_ \in Terminal)
\* wait_next_block, wait, close and open return
C31_WaitsReturn == (cop \in {"wnb", "wait", "close", "open"}) ~> (cop = "none")
\* a seek beyond read_size returns once the session has completed
C31_SeekReturnsWhenCompleted ==
    (cop \in {"seek", "preseek"} /\ state_ = completed) ~> (cop = "none")
\* seekoff of the polling variant goes round its loop with nothing in flight:
\* wait_next_block() returned false, the status is not completed
C31_SeekSpins ==
    /\ cop = "seek" /\ cpc = "retfalse" /\ Quiescent
    /\ state_ \in ErrorCodes \cup {idle}
    /\ read_size_ < carg

\* ======================= one session, run to its end ======================
\* the first open() of a stream, the calls made on it, its close(); the
\* engine, the background task and a call in progress keep running
FirstOpenCall(path) == nsess = 0 /\ OpenCall(path)
ConsumerStep ==
    \/ Open \/ Close
    \/ WnbEntry \/ WnbWake \/ WnbReturn
    \/ ReadResume \/ SeekResume \/ WaitResume
TaskStep ==
    \/ DoReadOpenFile \/ DoReadSignalAll \/ DoReadSubmit \/ DoReadSetReading
    \/ DoReadFinish

NextSession ==
    \/ \E path \in Paths : FirstOpenCall(path)
    \/ CloseCall
    \/ WnbCall
    \/ \E count \in 0 .. MaxLen + 1 : ReadCall(count)
    \/ \E off \in 0 .. MaxLen + 1 : SeekCall(off)
    \/ WaitCall
    \/ ConsumerStep
    \/ TaskStep
    \/ EngineStep

SpecSession ==
    /\ Init /\ [][NextSession]_vars
    /\ WF_vars(EngineStep) /\ WF_vars(TaskStep) /\ WF_vars(ConsumerStep)

\* ---- C32 ----------------------------------------------------------------
\* the session whose OpenFile() failed on the background path
OpenFileFailed == state_ = error_file_open_failed /\ hist.failed
NoEventSet == \A i \in 1 .. Len(events_) : ~events_[i]
EveryEventSet == \A i \in 1 .. Len(events_) : events_[i]
\* the status is the error before any event is set, then every event is set,
\* and nothing of the session is in the queue or registered on a fence
FailedBeforeSignalled ==
    /\ tpc = "signal_all" => (OpenFileFailed /\ NoEventSet)
    /\ (OpenFileFailed /\ tpc = "done") => (EveryEventSet /\ Len(events_) > 0)
    /\ OpenFileFailed => (queue = << >> /\ fence_.null /\ ~wroteFreed)

\* C32: when the engine's open of the file fails on the background path, the
\* status becomes error_file_open_failed before any completion event is
\* signalled, then every completion event is signalled, a consumer blocked in
\* wait_next_block, read, seek, wait or close is released and returns, and no
\* request is submitted for the session.
C32_OpenFailureReleasesConsumer ==
    /\ []FailedBeforeSignalled
    /\ (OpenFileFailed /\ cop \in BlockingCalls) ~> (cop = "none")
\* a wait_next_block() entered while the session was launched returned after
\* the failure, on an event set by signal_all()
C32_Witness ==
    /\ OpenFileFailed /\ tpc = "done" /\ EveryEventSet /\ Len(events_) > 1
    /\ cop \in BlockingCalls /\ cpc = "rettrue" /\ wnb.s = launched

\* ---- C33 ----------------------------------------------------------------
\* the cursor as an offset into the session's buffer
GetPos == gptr - Head_
\* read(dst, n) is called with [p, p + n) below read_size
ReadBelowReadSize(n) ==
    /\ ReadCall(n)
    /\ buf_ # 0 /\ GetPos >= 0 /\ GetPos + n <= read_size_
\* it returns n bytes in the same step, with no wait_next_block() call
ReturnsAtOnce(n) ==
    /\ cop' = "none" /\ rd'.ret = n /\ rd'.p = GetPos
    /\ dst' = [k \in 1 .. n |-> mem[GetPos + k]]
    /\ gptr' = gptr + n
    /\ wnb' = NoWnb
    /\ UNCHANGED << read_size_, event_pos_, state_ >>

\* C33: a read whose range [p, p + n) lies entirely below the current
\* read_size returns n bytes without waiting: it does not call
\* wait_next_block, and read_size, the completion-event position and the
\* session status are unchanged by it.
C33_ReadBelowReadSizeDoesNotWait ==
    [][\A n \in 1 .. MaxLen + 1 : ReadBelowReadSize(n) => ReturnsAtOnce(n)]_vars
\* such a read returned while the session was still reading
C33_Witness ==
    /\ cop = "none" /\ rd.n > 0 /\ rd.ret = rd.n /\ rd.p > 0
    /\ wnb = NoWnb /\ Len(dst) = rd.n
    /\ rd.p + rd.n <= read_size_ /\ read_size_ < file_size_
    /\ state_ = reading /\ GetPos = rd.p + rd.n

\* ---- C34 ----------------------------------------------------------------
\* the get area ends at or below the transferred prefix of the buffer
WindowWithinReadSize == egptr <= Head_ + read_size_

\* C34: after any sequence of open, seek, read and wait_next_block calls the
\* end of the readable window (the get area of character-wise reads) never
\* exceeds read_size; seek() does not expose bytes between read_size and
\* file_size that have not been transferred.
C34_WindowNeverExceedsReadSize == buf_ # 0 => WindowWithinReadSize
\* only seekoff moves the end of the window above read_size
C34_OnlySeekWidens ==
    [][(buf_ # 0 /\ buf_' = buf_ /\ WindowWithinReadSize /\ ~WindowWithinReadSize')
          => (last'.op = "seek" /\ egptr' = Head_ + file_size_)]_vars
\* seek(0) returned on a session in flight: the window ends at file_size and
\* covers bytes the engine has not written
C34_SeekExposedUntransferred ==
    /\ buf_ # 0 /\ last.op = "seek" /\ cop = "none"
    /\ egptr = Head_ + file_size_ /\ read_size_ < file_size_
    /\ gptr < egptr /\ mem[GetPos + 1] = Unwritten

\* ---- C35 ----------------------------------------------------------------
\* the get area is the empty window at the start of the current session
FreshWindow == gptr = Head_ /\ egptr = Head_
\* an address inside a buffer that was handed to its deleter
InReleased(addr) ==
    \E b \in released : addr >= Base(b) /\ addr < Base(b) + Stride

\* C35: after close() and after a re-open of the same instance (also onto an
\* empty file, also a failed one) the cursor and the readable window refer to
\* the new session only: the cursor is 0, and read() never returns bytes of,
\* or reads addresses inside, the previous session's released buffer.
C35_WindowOfNewSession ==
    /\ (cop = "none" /\ (state_ = idle \/ last.op = "open")) => FreshWindow
    /\ ~InReleased(gptr)
    /\ cop \notin {"crashed", "undefined"}
    /\ \A k \in 1 .. Len(dst) : dst[k] # Stale
\* a re-open that allocates a buffer does set the window to the new buffer
C35_ReopenWithBuffer ==
    (cop = "none" /\ last.op = "open" /\ buf_ # 0) => (FreshWindow /\ ~InReleased(gptr))
\* after close() the cursor still points into the released buffer
C35_StaleCursorAfterClose ==
    state_ = idle /\ cop = "none" /\ buf_ = 0 /\ InReleased(gptr)
\* a read after a re-open onto an empty file used the stale cursor
C35_ReadFromReleased ==
    /\ cop \in {"crashed", "undefined"} /\ rd.n > 0
    /\ state_ = completed /\ file_size_ = 0 /\ InReleased(gptr)

\* ======================= swap while a session is in flight ================
\* DStorageStreamBuf::swap(v): super::swap(v) exchanges the get areas,
\* std::swap(pimpl_, v.pimpl_) the PImpl pointers.  The task open() launched
\* captured `this`; do_read() starts with `auto& m = *pimpl_`.  After the swap
\* the variables of the session describe what v holds, and the consumer goes
\* on with v; peer.state_ is the status in the PImpl v was constructed with,
\* which `this` holds from then on.
mappedV == << mmap_, strm, disk, mlast, mlog, cb, do_close >>

Swap ==
    /\ cop = "none"
    /\ ~peer.swapped
    /\ tpc \notin {"none", "done"}
    /\ peer' = [peer EXCEPT !.swapped = TRUE]
    /\ last' = [NoLast EXCEPT !.op = "swap"]
    /\ UNCHANGED << globals, extracted, mappedV, instanceV, cop >>

\* do_read(): auto& m = *pimpl_  -- this->pimpl_ as it is when the task gets there
DoReadBind ==
    /\ tpc = "openfile" /\ peer.bound = "none"
    /\ peer' = [peer EXCEPT !.bound = IF peer.swapped THEN "other" ELSE "own"]
    /\ UNCHANGED << globals, extracted, mappedV, instanceV, cop, last >>

\* do_read() on the PImpl v was constructed with: path_ is empty, OpenFile()
\* fails, the status of that PImpl becomes the error, signal_all() finds no
\* event, the task returns
DoReadOnPeer ==
    /\ tpc = "openfile" /\ peer.bound = "other"
    /\ peer' = [peer EXCEPT !.state_ = error_file_open_failed]
    /\ tpc' = "done"
    /\ ntasks' = ntasks - 1
    /\ UNCHANGED << globals, extracted, mappedV, engineV, released, pimplV, getV, nsess,
                    consV, histV, last >>

SwapTaskStep == DoReadBind \/ DoReadOnPeer \/ (peer.bound = "own" /\ TaskStep)

NextSwap ==
    \/ \E path \in Paths : FirstOpenCall(path)
    \/ Swap
    \/ CloseCall
    \/ WnbCall
    \/ \E count \in 0 .. MaxLen + 1 : ReadCall(count)
    \/ \E off \in 0 .. MaxLen + 1 : SeekCall(off)
    \/ WaitCall
    \/ ConsumerStep
    \/ SwapTaskStep
    \/ EngineStep

SpecSwap ==
    /\ Init /\ [][NextSwap]_vars
    /\ WF_vars(EngineStep) /\ WF_vars(SwapTaskStep) /\ WF_vars(ConsumerStep)

\* ---- C36 ----------------------------------------------------------------
InFlight == state_ \in {launched, reading}
\* the task works on the session it was launched for, the moved-from stream
\* is idle
TaskKeepsItsSession == peer.bound # "other" /\ peer.state_ = idle

\* C36: swapping a stream while its session is in flight transfers the whole
\* session at whatever point of the task's start-up the swap happens: the task
\* keeps operating on the state of the session it was launched for, the
\* receiving stream observes every chunk and eventually a terminal status, and
\* the moved-from stream is left idle.
C36_SwapTransfersSession ==
    /\ [](peer.swapped => TaskKeepsItsSession)
    /\ (peer.swapped /\ InFlight) ~> (state_ \in Terminal)
\* a swap after do_read() bound its reference: the session goes on for the
\* receiving stream and ends, the moved-from stream is idle
C36_SwapAfterBinding ==
    /\ [](peer.bound = "own" => peer.state_ = idle)
    /\ (peer.swapped /\ peer.bound = "own" /\ InFlight) ~> (state_ \in Terminal)
\* a swap before do_read() bound its reference: the task ran on the other
\* PImpl and returned, the session stays launched with no event set, and the
\* receiving stream is blocked in wait_next_block()
C36_TaskOnOtherPImpl ==
    /\ peer.swapped /\ peer.bound = "other" /\ tpc = "done"
    /\ peer.state_ = error_file_open_failed
    /\ state_ = launched /\ NoEventSet /\ queue = << >>
    /\ cop \in BlockingCalls /\ cpc = "blocked"

\* ======================= set_staging_buffer_size() ========================
\* DStorageStream::set_staging_buffer_size(size): g_ds_staging_buffer_size = size
SetStagingBufferSize(size) ==
    /\ cop = "none"
    /\ g_ds_staging_buffer_size' = size
    /\ last' = NoLast
    /\ UNCHANGED << g_d3d12_device, g_ds_factory, g_ds_queue, s_resolve_imports,
                    extracted, otherV, instanceV, cop >>

NextStaging ==
    \/ \E size \in 1 .. MaxChunk : SetStagingBufferSize(size)
    \/ \E path \in Paths : FirstOpenCall(path)
    \/ CloseCall
    \/ WnbCall
    \/ WaitCall
    \/ Open \/ Close
    \/ WnbEntry \/ WnbWake \/ WnbReturn
    \/ WaitResume
    \/ TaskStep
    \/ EngineStep

SpecStaging == Init /\ [][NextStaging]_vars

\* ---- C37 ----------------------------------------------------------------
\* the enqueue loop has run
Enqueued == tpc \in {"setreading", "waitlast", "done"} /\ ~fence_.null

\* C37: the number of completion events open() allocated equals the number
\* of requests the background path enqueues for the session: do_read never
\* indexes at or past the end of the event list and waits on the event of
\* the last request, also when set_staging_buffer_size() is called between
\* open() and the enqueue loop.
C37_EventsMatchRequests ==
    /\ tpc \notin NullCall
    /\ Enqueued => Len(fence_.on) = Len(events_)
\* with the staging size of open() still in place the two numbers agree
C37_SameSizeSameCount ==
    (Enqueued /\ Len(events_) = EventCount(file_size_, g_ds_staging_buffer_size)
       /\ last.op = "open") => Len(fence_.on) = Len(events_)
\* a smaller size was set after open(): the loop indexed past the last event
C37_IndexedPastEnd ==
    /\ tpc \in NullCall /\ g_ds_queue
    /\ Len(events_) < EventCount(file_size_, g_ds_staging_buffer_size)
\* a larger size was set after open(): every request is done and signalled,
\* the last event was registered for no request, do_read() waits on it
C37_LastEventNeverSet ==
    /\ tpc = "waitlast" /\ queue = << >> /\ fence_.val = file_size_
    /\ Len(fence_.on) < Len(events_) /\ ~events_[Len(events_)]

\* ======================= two sessions on the shared queue =================
\* g_ds_queue is one queue for the process; every DStorageStreamBuf enqueues
\* on it and asks it for its error record.  The second stream v opens a file
\* of one chunk: its task enqueues one request and one fence signal, waits
\* for its event and retrieves the error record.  The enqueue loop, Submit()
\* and `state_ = reading` run under g_ds_mutex, so one task's batch is a
\* single step for the other task.
PeerRequest == [kind |-> "preq"]
PeerSignal == [kind |-> "psig"]

\* v.open(): the task is launched, OpenFile() succeeds
PeerOpen ==
    /\ g_ds_factory /\ g_d3d12_device /\ g_ds_queue
    /\ peer.tpc = "none"
    /\ peer' = [peer EXCEPT !.tpc = "submit", !.state_ = launched]
    /\ UNCHANGED << globals, extracted, mappedV, instanceV, cop, last >>

\* v's do_read(): the enqueue loop, Submit(), state_ = reading
PeerSubmit ==
    /\ peer.tpc = "submit"
    /\ queue' = queue \o << PeerRequest, PeerSignal >>
    /\ peer' = [peer EXCEPT !.tpc = "waitlast", !.state_ = reading]
    /\ UNCHANGED << globals, extracted, mappedV, errRec, fence_, mem, wroteFreed, released,
                    pimplV, tpc, ntasks, getV, nsess, consV, histV, last >>

\* the engine completes v's request, or the request fails and is recorded
PeerEngineRequest ==
    /\ queue # << >>
    /\ Head(queue).kind = "preq"
    /\ queue' = Tail(queue)
    /\ \/ UNCHANGED << errRec, peer >>
       \/ /\ errRec' = TRUE
          /\ peer' = [peer EXCEPT !.failed = TRUE]
    /\ UNCHANGED << globals, extracted, mappedV, fence_, mem, wroteFreed, released,
                    pimplV, tpc, ntasks, getV, nsess, consV, histV, last >>

\* the engine executes v's fence signal: v's event is set
PeerEngineSignal ==
    /\ queue # << >>
    /\ Head(queue).kind = "psig"
    /\ queue' = Tail(queue)
    /\ peer' = [peer EXCEPT !.set = TRUE]
    /\ UNCHANGED << globals, extracted, mappedV, errRec, fence_, mem, wroteFreed, released,
                    pimplV, tpc, ntasks, getV, nsess, consV, histV, last >>

\* v's do_read(): WaitForSingleObject, RetrieveErrorRecord, final status
PeerFinish ==
    /\ peer.tpc = "waitlast" /\ peer.set
    /\ peer' = [peer EXCEPT !.tpc = "done", !.state_ = FinalStatus]
    /\ errRec' = FALSE
    /\ UNCHANGED << globals, extracted, mappedV, queue, fence_, mem, wroteFreed, released,
                    pimplV, tpc, ntasks, getV, nsess, consV, histV, last >>

PeerTaskStep == PeerSubmit \/ PeerFinish
PeerEngineStep == PeerEngineRequest \/ PeerEngineSignal

NextShared ==
    \/ \E path \in Paths : FirstOpenCall(path)
    \/ PeerOpen
    \/ WnbCall
    \/ WaitCall
    \/ Open
    \/ WnbEntry \/ WnbWake \/ WnbReturn
    \/ WaitResume
    \/ TaskStep
    \/ PeerTaskStep
    \/ EngineStep
    \/ PeerEngineStep

SpecShared == Init /\ [][NextShared]_vars

\* ---- C38 ----------------------------------------------------------------
\* positions in the queue of the items of the first stream, and of v
OwnItems == {i \in 1 .. Len(queue) : queue[i].kind \in {"req", "sig"}}
PeerItems == {i \in 1 .. Len(queue) : queue[i].kind \in {"preq", "psig"}}
Contiguous(S) == \A i, j \in S : \A k \in i .. j : k \in S
\* a request of the first stream's session failed (OpenFile() succeeded)
OwnRequestFailed == hist.failed /\ ~fence_.null
OwnEnded == tpc = "done" /\ ~fence_.null
PeerEnded == peer.tpc = "done"

\* C38: with two sessions in flight on the shared queue each session's
\* requests are enqueued and submitted as one uninterrupted batch, and a
\* failure of one session never becomes the other's error: a session ends in
\* error_unknown only if one of its own requests failed, and a session whose
\* request failed never ends in completed.
C38_FailureStaysWithItsSession ==
    /\ Contiguous(OwnItems) /\ Contiguous(PeerItems)
    /\ OwnEnded => (state_ = error_unknown <=> OwnRequestFailed)
    /\ PeerEnded => (peer.state_ = error_unknown <=> peer.failed)
\* the batches stay whole, and a session that is alone on the queue ends
\* with its own result
C38_BatchesWholeAndAloneOwnResult ==
    /\ Contiguous(OwnItems) /\ Contiguous(PeerItems)
    /\ (OwnEnded /\ peer.tpc = "none") => (state_ = error_unknown <=> OwnRequestFailed)
    /\ (PeerEnded /\ tpc = "none") => (peer.state_ = error_unknown <=> peer.failed)
\* v's request failed, the first stream retrieved the record: it ends in
\* error_unknown with every request of its own transferred, v ends completed
C38_ForeignFailure ==
    /\ OwnEnded /\ PeerEnded
    /\ state_ = error_unknown /\ ~OwnRequestFailed
    /\ peer.state_ = completed /\ peer.failed
\* the converse: v retrieved the record of the first stream's failure
C38_FailureLost ==
    /\ OwnEnded /\ PeerEnded
    /\ state_ = completed /\ OwnRequestFailed
    /\ peer.state_ = error_unknown /\ ~peer.failed

\* ---- C40 ----------------------------------------------------------------
\* the write that returned last grew the mapping, and the new mapping exists
GrewMapping == mlast.op = "write" /\ mlast.maps = 1 /\ mmap_.mapping_
CoversRequest == GrewMapping => mmap_.size_ >= mlast.cap0 + mlast.arg

\* C40: the capacity computation of write and overflow (ExpandFileSize)
\* terminates for every current capacity and every requested extension,
\* a current capacity of 0 included, and returns a capacity that is at
\* least the current capacity plus the extension.
C40_ExpandTerminatesAndCovers ==
    /\ strm.pc # "hung"
    /\ CoversRequest
\* from a capacity above 0 the loop ends with a capacity that covers the
\* request; the loop that does not end started from capacity 0
C40_TerminatesFromPositiveCapacity ==
    /\ strm.pc = "hung" => (mmap_.size_ = 0 /\ mlast.arg > 0)
    /\ CoversRequest
\* write on an open stream whose first mapping failed: ExpandFileSize(0, n)
C40_LoopsAtZero ==
    /\ strm.pc = "hung" /\ mlast.op = "write"
    /\ mmap_.file_ = "valid" /\ mmap_.mode_ = "out" /\ mmap_.size_ = 0

\* ======================= destruction with async_unmap =====================
\* the write session is opened with std::ios::out | async_unmap: close() and
\* close_with_truncation() move the PImpl into do_close and hand it to
\* concurrency::create_task(); the caller goes on while the task is pending
NextAsync ==
    \/ \E createOk, mappingOk, viewOk \in BOOLEAN :
          MOpenWriteMode(createOk, mappingOk, viewOk, TRUE)
    \/ \E createOk, mappingOk, viewOk \in BOOLEAN : MOpenRead(createOk, mappingOk, viewOk)
    \/ \E n \in WriteSizes : \E mappingOk, viewOk \in BOOLEAN : MWrite(n, mappingOk, viewOk)
    \/ \E off \in SeekOffsets : MSeek(off)
    \/ \E n \in ReadSizes : MRead(n)
    \/ MClose
    \/ MDestroy
    \/ MNew
    \/ DoClose

SpecAsync == InitMMap /\ [][NextAsync]_vars

\* ---- C39 ----------------------------------------------------------------
\* the write-mode stream on a created file was destroyed while open: its
\* destructor computed do_close.filesize = max(pmax_, cursor)
WriterDestroyed == mlog.created = "file" /\ mlog.ended = "destroy" /\ do_close.truncate
\* the next instance's read-mode open() has returned true
ReaderOpened == mlog.inst = 1 /\ mlast.op = "open" /\ mlast.mode = "in" /\ mlast.ret = 1

\* C39: when a write-mode mapped stream opened with async_unmap is destroyed,
\* a read-mode open of the same file that starts after the destructor has
\* returned observes the truncated size max(high_water_mark, cursor), never
\* the over-allocated mapped capacity.
C39_ReaderSeesTruncatedSize ==
    (WriterDestroyed /\ ReaderOpened) => mmap_.size_ = do_close.filesize
\* a read-mode open that starts after the task has run observes the
\* truncated size
C39_OpenAfterTaskSeesTruncatedSize ==
    [][(WriterDestroyed /\ ~do_close.pending /\ strm.pc = "new" /\ ReaderOpened')
          => mmap_'.size_ = do_close.filesize]_vars
\* the open ran between the destructor's return and the task: the reader maps
\* the whole capacity
C39_ReaderMapsCapacity ==
    /\ WriterDestroyed /\ ReaderOpened /\ do_close.pending
    /\ do_close.filesize > 0
    /\ mmap_.size_ = do_close.m.size_ /\ mmap_.size_ > do_close.filesize
\* the task then ran while the reader's section was mapped: the file keeps
\* the capacity
C39_FileKeepsCapacity ==
    /\ WriterDestroyed /\ ~do_close.pending /\ mmap_.mapping_
    /\ Len(disk.bytes) > do_close.filesize

====
